---------------------------- MODULE Spec2Model ----------------------------
(***************************************************************************)
(* A model of GoVaultFS: the content-addressable store (store.go), the     *)
(* AES-CTR stream codec (crypto.go), the TCP transport with its stream     *)
(* gate (p2p/tcp_transport.go, p2p/encoding.go) and the file server that   *)
(* replicates blobs between peers (server.go).                             *)
(*                                                                         *)
(* Bytes are naturals in 0..255.  Strings that the code hashes are TLA+    *)
(* strings; their digests are the real SHA-1 / MD5 values, tabulated.      *)
(***************************************************************************)
EXTENDS Integers, Sequences, FiniteSets, TLC

VARIABLES
    disk,    \* disk[root]: the files under a storage root, place -> content
    last,    \* the last call made on the stand-alone Store, with its result
    cr,      \* an encrypt-then-decrypt pipeline over in-memory buffers
    peers,   \* peers[n]: the remote addresses in node n's peer map
    wire,    \* wire[<<a, b>>]: bytes written by a to its connection with b, not yet read by b
    rl,      \* rl[<<n, p>>]: node n's read loop (handleConn) for the connection with p
    wg,      \* wg[<<n, p>>]: the counter of the WaitGroup of n's TCPPeer for p
    rpcch,   \* rpcch[n]: the transport's channel of decoded RPCs
    loop,    \* loop[n]: the file server's dispatch loop and the handler it runs
    op,      \* op[n]: the Store / Get call the node's caller is in
    node     \* node[n]: the caller's place in its script and its calls so far, the
             \* frames sent as a remote peer, whether the process panicked

(***************************************************************************)
(* Bounds of the model.                                                    *)
(***************************************************************************)
\* longest plaintext payload handed to Write / Store / copyEncrypt
MaxLen == 2
\* control messages the remote peers send on their own, in all
MaxFrames == 1

(***************************************************************************)
(* Program constants.                                                      *)
(***************************************************************************)
\* aes.BlockSize: width of the initialization prefix (crypto.go)
BlockSize == 16
\* copyStream's buffer, 32*1024 bytes
copyBufSize == 32768
\* CASPathTransformFunc's blocksize
blocksize == 5
\* the literal 16 that FileServer.Store adds to the announced size
encPadding == 16
\* p2p.IncomingMessage and p2p.IncomingStream
IncomingMessage == 1
IncomingStream == 2
\* DefaultDecoder's payload buffer
maxFrame == 1028
\* capacity of TCPTransport.rpcch
rpcchCap == 1024

Byte == 0..255

Min(a, b) == IF a < b THEN a ELSE b

\* the sequence s without its first n elements
Drop(s, n) == SubSeq(s, n + 1, Len(s))
\* the first n elements of s
Take(s, n) == SubSeq(s, 1, n)

(***************************************************************************)
(* Inputs.                                                                 *)
(***************************************************************************)
\* bytes a payload is made of; 2 is also the value of the Stream tag
PayloadBytes == {65, 2}

RECURSIVE SeqsUpTo(_, _)
SeqsUpTo(S, n) ==
    IF n = 0 THEN {<<>>}
    ELSE LET shorter == SeqsUpTo(S, n - 1)
         IN  shorter \cup {Append(s, b) : s \in {t \in shorter : Len(t) = n - 1}, b \in S}

Payloads == SeqsUpTo(PayloadBytes, MaxLen)

\* lookup keys given by callers; the last two share the first five hex
\* characters of their SHA-1 digest ("66a2f")
UserKeys == {"picture_0.png", "picture_75.png", "picture_1475.png"}

(***************************************************************************)
(* crypto.go                                                               *)
(***************************************************************************)
\* hashKey: hex of the MD5 digest of the key (tabulated for UserKeys)
hashKey(key) ==
    CASE key = "picture_0.png"    -> "44b2a6b69cffe1ea7922da80d75577e7"
      [] key = "picture_75.png"   -> "305fd5bf1ca7efc6474192bdf0dc2cac"
      [] key = "picture_1475.png" -> "6a7269469d0deaa737cbf2df8be39f7c"

HashedKeys == {hashKey(k) : k \in UserKeys}
AllKeys == UserKeys \cup HashedKeys

\* encryption keys (newEncryptionKey), named by a number
EncKeys == {1, 2}

\* initialization vectors rand.Reader may produce (BlockSize bytes each)
IVs == { [i \in 1..BlockSize |-> 7], [i \in 1..BlockSize |-> i] }

RECURSIVE Xor(_, _)
Xor(a, b) ==
    IF a = 0 THEN b
    ELSE IF b = 0 THEN a
    ELSE ((a + b) % 2) + 2 * Xor(a \div 2, b \div 2)

RECURSIVE SumSeq(_)
SumSeq(s) == IF s = <<>> THEN 0 ELSE Head(s) * Len(s) + SumSeq(Tail(s))

\* One byte of the AES-CTR keystream: byte (pos % 16) of the encryption
\* under key of the counter block iv + pos \div 16.  AES itself is a
\* library; it is stood for by a fixed mixing function of its inputs.
KeyStreamByte(key, iv, pos) ==
    (key * 101 + (SumSeq(iv) + pos \div BlockSize) * 37 + (pos % BlockSize) * 29 + 11) % 256

\* cipher.NewCTR(block, iv): a stream at position 0
NewCTR(key, iv) == [key |-> key, iv |-> iv, pos |-> 0]

\* stream.XORKeyStream(buf, buf[:n]): the bytes XORed with the keystream
XORKeyStream(stream, bytes) ==
    [i \in 1..Len(bytes) |->
        Xor(bytes[i], KeyStreamByte(stream.key, stream.iv, stream.pos + i - 1))]

\* the stream after n bytes went through it
Advance(stream, n) == [stream EXCEPT !.pos = @ + n]

\* (a count that leaves the prefix out)
copyStreamStart_Zero(blockSize) == 0
\* copyStream's byte counter starts at the block size
copyStreamStart(blockSize) == blockSize

\* the iv buffer after the first read delivered `bytes`: make() zeroes it
ivBuffer(bytes) ==
    [i \in 1..BlockSize |-> IF i <= Len(bytes) THEN bytes[i] ELSE 0]

(***************************************************************************)
(* store.go                                                                *)
(***************************************************************************)
\* hex.EncodeToString(sha1.Sum(key)) as a sequence of 40 hex digits
sha1Hex(key) ==
    CASE key = "picture_0.png" ->
           <<13,4,4,11,11,13,0,11,11,13,10,6,8,5,13,5,13,11,9,0,15,4,1,9,5,6,8,11,5,3,1,10,11,9,10,15,10,9,7,11>>
      [] key = "44b2a6b69cffe1ea7922da80d75577e7" ->
           <<3,1,5,10,13,15,10,12,12,6,13,5,10,2,0,11,12,3,9,14,7,2,6,12,2,9,7,9,0,2,6,6,15,12,7,14,12,13,3,2>>
      [] key = "picture_75.png" ->
           <<6,6,10,2,15,11,1,9,15,8,10,4,15,1,12,7,2,3,2,4,9,13,3,0,0,11,10,9,9,2,1,10,13,1,8,2,14,8,9,7>>
      [] key = "305fd5bf1ca7efc6474192bdf0dc2cac" ->
           <<11,0,8,4,6,14,14,11,8,3,15,13,15,12,5,13,4,7,15,3,3,1,1,13,10,13,9,4,12,13,15,12,4,5,13,2,6,9,13,3>>
      [] key = "picture_1475.png" ->
           <<6,6,10,2,15,4,15,8,0,3,12,3,12,8,6,5,14,1,5,13,11,3,10,14,2,13,8,7,12,15,4,5,12,3,10,3,8,11,13,7>>
      [] key = "6a7269469d0deaa737cbf2df8be39f7c" ->
           <<4,13,15,0,14,13,6,10,11,10,2,13,3,4,10,7,6,7,13,12,0,11,12,14,14,14,8,7,9,10,15,7,1,0,10,12,1,2,3,9>>

\* (a transform that keeps the digest in one segment)
CASPathTransformFunc_Flat(key) == [PathName |-> <<sha1Hex(key)>>, Filename |-> sha1Hex(key)]
\* CASPathTransformFunc: the digest cut into len/blocksize segments
CASPathTransformFunc(key) ==
    LET hashStr  == sha1Hex(key)
        sliceLen == Len(hashStr) \div blocksize
    IN  [PathName |-> [i \in 1..sliceLen |->
                          SubSeq(hashStr, (i - 1) * blocksize + 1, (i - 1) * blocksize + blocksize)],
         Filename |-> hashStr]

\* PathKey.FirstPathName
FirstPathName(p) == IF Len(p.PathName) = 0 THEN <<>> ELSE p.PathName[1]

\* PathKey.FullPath: the segments, then the file name
FullPath(p) == Append(p.PathName, p.Filename)

\* the transform of every key of the model, computed once
PathKeyOf == [k \in AllKeys |-> CASPathTransformFunc(k)]

\* the store's configured transform (StoreOpts.PathTransformFunc)
\* (a transform that sends every key to one place)
PathTransformFunc_OnePlace(key) == PathKeyOf["picture_0.png"]
PathTransformFunc(key) == PathKeyOf[key]

\* "%s/%s/%s" of root, id and a path: a file system is the files under one
\* root, so a place is the id followed by the path's components
\* (a place that leaves the node ID out)
fullPathWithRoot_NoID(id, key) == <<"">> \o FullPath(PathTransformFunc(key))
fullPathWithRoot(id, key) == <<id>> \o FullPath(PathTransformFunc(key))
\* (a Delete that took the node's whole directory for the bucket)
firstPathNameWithRoot_NodeDir(id, key) == <<id>>
\* (a Delete that took the blob's file alone)
firstPathNameWithRoot_File(id, key) == fullPathWithRoot(id, key)
firstPathNameWithRoot(id, key) == <<id, FirstPathName(PathTransformFunc(key))>>

\* whether place p lies in or under directory d
Under(p, d) == Len(p) >= Len(d) /\ SubSeq(p, 1, Len(d)) = d

EmptyFS == [p \in {} |-> <<>>]

\* Store.Has: os.Stat of the blob's place
Has(fs, id, key) == fullPathWithRoot(id, key) \in DOMAIN fs

\* os.RemoveAll of a directory: every file under it goes
RemoveAll(fs, dir) == [p \in {q \in DOMAIN fs : ~Under(q, dir)} |-> fs[p]]

\* Store.Delete: removes the first directory segment of the blob's path
Delete(fs, id, key) == RemoveAll(fs, firstPathNameWithRoot(id, key))

\* Store.Clear
Clear(fs) == EmptyFS

\* (an open without truncation, which keeps the old content)
createdContent_Keep(old) == old
\* what os.Create leaves in the file: it truncates
createdContent(old) == <<>>

\* Store.openFileForWriting: MkdirAll, then os.Create
openFileForWriting(fs, id, key) ==
    LET place == fullPathWithRoot(id, key)
    IN  [p \in DOMAIN fs \cup {place} |->
            IF p = place
            THEN createdContent(IF place \in DOMAIN fs THEN fs[place] ELSE <<>>)
            ELSE fs[p]]

\* f.Write(bytes) on the file opened for (id, key) whose offset is `off`:
\* bytes land at the offset, later bytes of the file stay
fileWrite(fs, id, key, off, bytes) ==
    LET place == fullPathWithRoot(id, key)
        old   == fs[place]
    IN  [fs EXCEPT ![place] =
            Take(old, Min(off, Len(old))) \o bytes \o Drop(old, Min(Len(old), off + Len(bytes)))]

\* Store.writeStream / Store.Write with the whole of `data` read from r
Write(fs, id, key, data) == fileWrite(openFileForWriting(fs, id, key), id, key, 0, data)

\* Store.readStream / Store.Read: size and content, or an error when absent
Read(fs, id, key) ==
    IF Has(fs, id, key)
    THEN [err |-> FALSE, size |-> Len(fs[fullPathWithRoot(id, key)]),
          data |-> fs[fullPathWithRoot(id, key)]]
    ELSE [err |-> TRUE, size |-> 0, data |-> <<>>]

(***************************************************************************)
(* The network part is idle in the specifications of the Store and of the  *)
(* codec alone.                                                            *)
(***************************************************************************)
netVars == <<peers, wire, rl, wg, rpcch, loop, op, node>>

NetOff ==
    /\ peers = <<>> /\ wire = <<>> /\ rl = <<>> /\ wg = <<>>
    /\ rpcch = <<>> /\ loop = <<>> /\ op = <<>> /\ node = <<>>

(***************************************************************************)
(* The Store on its own: calls of Write, WriteDecrypt, Delete and Clear    *)
(* on one Store whose root is the default root folder.                     *)
(***************************************************************************)
defaultRootFolderName == "ggnetwork"

\* node IDs that scope the blobs of a root
NodeIDs == {"idA", "idB"}

\* (a copy that writes the prefix and then the payload as it is)
copyEncryptAll_Clear(key, iv, plain) ==
    [out |-> iv \o plain, n |-> copyStreamStart(BlockSize) + Len(plain)]
\* copyEncrypt with src read to its end: the bytes written to dst, and
\* the count returned
copyEncryptAll(key, iv, plain) ==
    [out |-> iv \o XORKeyStream(NewCTR(key, iv), plain),
     n   |-> copyStreamStart(BlockSize) + Len(plain)]

\* copyDecrypt over a reader that returns all it holds at every read
\* (bytes.Buffer): the bytes written to dst, the count, the error
copyDecryptAll(key, src) ==
    IF src = <<>>
    THEN [err |-> TRUE, out |-> <<>>, n |-> 0]
    ELSE LET got == Take(src, Min(BlockSize, Len(src)))
             iv  == ivBuffer(got)
             rest == Drop(src, Len(got))
         IN  [err |-> FALSE,
              out |-> XORKeyStream(NewCTR(key, iv), rest),
              n   |-> copyStreamStart(BlockSize) + Len(rest)]

\* Store.WriteDecrypt with the whole of `src` available to the reads
WriteDecrypt(fs, encKey, id, key, src) ==
    LET opened == openFileForWriting(fs, id, key)
        r      == copyDecryptAll(encKey, src)
    IN  [fs |-> fileWrite(opened, id, key, 0, r.out), n |-> r.n, err |-> r.err]

\* `before` is the size of the blob the call found, -1 when there was none
NoCall == [op |-> "none", id |-> "", key |-> "", data |-> <<>>, n |-> 0, err |-> FALSE,
           before |-> -1]

sizeBefore(fs, id, key) == IF Has(fs, id, key) THEN Read(fs, id, key).size ELSE -1

\* the (node ID, key) pairs the stand-alone Store is called with: three
\* keys of one node, two of them in one bucket, and a key of another node
StoreScopes == {<<"idA", "picture_0.png">>, <<"idA", "picture_75.png">>,
                <<"idA", "picture_1475.png">>, <<"idB", "picture_75.png">>}

\* the blobs it is given: every length up to MaxLen, and two contents
StorePayloads == {p \in Payloads : \A i \in 1..Len(p) : p[i] = 65} \cup {<<2>>}

StoreInit ==
    /\ disk = [r \in {defaultRootFolderName} |-> EmptyFS]
    /\ last = NoCall
    /\ cr = [phase |-> "off"]
    /\ NetOff

StoreWrite(id, key, data) ==
    /\ disk' = [disk EXCEPT ![defaultRootFolderName] = Write(@, id, key, data)]
    /\ last' = [op |-> "Write", id |-> id, key |-> key, data |-> data,
                n |-> Len(data), err |-> FALSE,
                before |-> sizeBefore(disk[defaultRootFolderName], id, key)]
    /\ UNCHANGED <<cr, netVars>>

StoreWriteDecrypt(encKey, iv, id, key, data) ==
    /\ LET r == WriteDecrypt(disk[defaultRootFolderName], encKey, id, key,
                             copyEncryptAll(encKey, iv, data).out)
       IN  /\ disk' = [disk EXCEPT ![defaultRootFolderName] = r.fs]
           /\ last' = [op |-> "WriteDecrypt", id |-> id, key |-> key, data |-> data,
                       n |-> r.n, err |-> r.err,
                       before |-> sizeBefore(disk[defaultRootFolderName], id, key)]
    /\ UNCHANGED <<cr, netVars>>

StoreDelete(id, key) ==
    /\ disk' = [disk EXCEPT ![defaultRootFolderName] = Delete(@, id, key)]
    /\ last' = [op |-> "Delete", id |-> id, key |-> key, data |-> <<>>,
                n |-> 0, err |-> FALSE,
                before |-> sizeBefore(disk[defaultRootFolderName], id, key),
                gone |-> DOMAIN disk[defaultRootFolderName]
                            \ DOMAIN Delete(disk[defaultRootFolderName], id, key)]
    /\ UNCHANGED <<cr, netVars>>

StoreClear ==
    /\ disk' = [disk EXCEPT ![defaultRootFolderName] = Clear(@)]
    /\ last' = [NoCall EXCEPT !.op = "Clear"]
    /\ UNCHANGED <<cr, netVars>>

StoreNext ==
    \/ \E s \in StoreScopes, data \in StorePayloads : StoreWrite(s[1], s[2], data)
    \/ \E s \in StoreScopes, data \in StorePayloads :
          StoreWriteDecrypt(1, [i \in 1..BlockSize |-> 7], s[1], s[2], data)
    \/ \E s \in StoreScopes : StoreDelete(s[1], s[2])
    \/ StoreClear

vars == <<disk, last, cr, peers, wire, rl, wg, rpcch, loop, op, node>>

SpecStore == StoreInit /\ [][StoreNext]_vars

\* the stand-alone Store's files
fsStore == disk[defaultRootFolderName]

(***************************************************************************)
(* C2: after Write(n, k, d) succeeds, Has(n, k) is true and Read(n, k)     *)
(* returns size len(d) and exactly the bytes d, whatever blob was there    *)
(* before.                                                                 *)
(***************************************************************************)
C2_WriteThenRead ==
    (last.op = "Write" /\ ~last.err) =>
        /\ Has(fsStore, last.id, last.key)
        /\ Read(fsStore, last.id, last.key) =
              [err |-> FALSE, size |-> Len(last.data), data |-> last.data]
        /\ last.n = Len(last.data)

\* a shorter blob has been written over a longer one
C2_Witness ==
    /\ last.op = "Write"
    /\ last.before > Len(last.data)
    /\ Read(fsStore, last.id, last.key).data = last.data
    /\ Read(fsStore, last.id, last.key).size = 1

(***************************************************************************)
(* C3 as stated: after Delete(n, k), Has(n, k) is false, and a Delete of   *)
(* an absent key changes no stored blob.                                   *)
(***************************************************************************)
IsDeleteStep == last'.op = "Delete"

C3_AsStated ==
    [][IsDeleteStep =>
         /\ ~Has(fsStore', last'.id, last'.key)
         /\ ~last'.err
         /\ (~Has(fsStore, last'.id, last'.key) => fsStore' = fsStore)]_vars

(***************************************************************************)
(* C3 amended: after Delete(n, k), Has(n, k) is false; a Delete of an      *)
(* absent key returns no error and changes no blob outside the first       *)
(* directory segment of k's path under node n.                             *)
(***************************************************************************)
OutsideBucket(p, id, key) == ~Under(p, <<id, FirstPathName(CASPathTransformFunc(key))>>)

C3_DeleteBucket ==
    [][IsDeleteStep =>
         /\ ~Has(fsStore', last'.id, last'.key)
         /\ ~last'.err
         /\ \A p \in DOMAIN fsStore :
               OutsideBucket(p, last'.id, last'.key) =>
                  p \in DOMAIN fsStore' /\ fsStore'[p] = fsStore[p]]_vars

\* an absent key has been deleted while blobs were stored
C3_Witness ==
    /\ last.op = "Delete"
    /\ last.before = -1
    /\ DOMAIN fsStore # {}

(***************************************************************************)
(* The codec on its own: copyEncrypt of a payload into a buffer, then      *)
(* copyDecrypt of that buffer through a reader that may return fewer       *)
(* bytes than asked at every read.                                         *)
(***************************************************************************)
CryptoInit ==
    /\ disk = [r \in {defaultRootFolderName} |-> EmptyFS]
    /\ last = NoCall
    /\ \E key \in EncKeys, plain \in Payloads :
          cr = [phase |-> "start", key |-> key, plain |-> plain, src |-> plain,
                stream |-> NewCTR(key, <<>>), dst |-> <<>>, nw |-> 0,
                out |-> <<>>, dnw |-> 0]
    /\ NetOff

\* copyEncrypt up to the call of copyStream: a random IV is written to dst
copyEncryptBegin ==
    /\ cr.phase = "start"
    /\ \E iv \in IVs :
          cr' = [cr EXCEPT !.phase = "enc", !.dst = iv, !.stream = NewCTR(cr.key, iv),
                           !.nw = copyStreamStart(BlockSize)]
    /\ UNCHANGED <<disk, last, netVars>>

\* one turn of copyStream's loop inside copyEncrypt: src.Read returns n
\* bytes (n > 0) and possibly io.EOF with them, or 0 bytes and io.EOF
copyEncryptStream ==
    /\ cr.phase = "enc"
    /\ \/ \E n \in 1..Min(copyBufSize, Len(cr.src)), eof \in BOOLEAN :
             /\ eof => n = Len(cr.src)
             /\ cr' = [cr EXCEPT !.src = Drop(@, n),
                                 !.dst = @ \o XORKeyStream(cr.stream, Take(cr.src, n)),
                                 !.stream = Advance(@, n),
                                 !.nw = @ + n,
                                 !.phase = IF eof THEN "enc_done" ELSE "enc"]
       \/ /\ cr.src = <<>>
          /\ cr' = [cr EXCEPT !.phase = "enc_done"]
    /\ UNCHANGED <<disk, last, netVars>>

\* copyDecrypt up to the call of copyStream: one src.Read(iv) of at most
\* BlockSize bytes, whose count is not looked at
copyDecryptBegin ==
    /\ cr.phase = "enc_done"
    /\ \/ \E n \in 1..Min(BlockSize, Len(cr.dst)) :
             cr' = [cr EXCEPT !.phase = "dec", !.src = Drop(cr.dst, n),
                              !.stream = NewCTR(cr.key, ivBuffer(Take(cr.dst, n))),
                              !.dnw = copyStreamStart(BlockSize)]
       \/ /\ cr.dst = <<>>
          /\ cr' = [cr EXCEPT !.phase = "dec_err"]
    /\ UNCHANGED <<disk, last, netVars>>

\* one turn of copyStream's loop inside copyDecrypt
copyDecryptStream ==
    /\ cr.phase = "dec"
    /\ \/ \E n \in 1..Min(copyBufSize, Len(cr.src)), eof \in BOOLEAN :
             /\ eof => n = Len(cr.src)
             /\ cr' = [cr EXCEPT !.src = Drop(@, n),
                                 !.out = @ \o XORKeyStream(cr.stream, Take(cr.src, n)),
                                 !.stream = Advance(@, n),
                                 !.dnw = @ + n,
                                 !.phase = IF eof THEN "dec_done" ELSE "dec"]
       \/ /\ cr.src = <<>>
          /\ cr' = [cr EXCEPT !.phase = "dec_done"]
    /\ UNCHANGED <<disk, last, netVars>>

CryptoNext ==
    \/ copyEncryptBegin
    \/ copyEncryptStream
    \/ copyDecryptBegin
    \/ copyDecryptStream

SpecCrypto == CryptoInit /\ [][CryptoNext]_vars

(***************************************************************************)
(* C4 as stated: whatever the reads of the source return, copyDecrypt of   *)
(* copyEncrypt's output under the same key writes exactly the payload.     *)
(***************************************************************************)
C4_RoundTrip ==
    /\ cr.phase # "dec_err"
    /\ cr.phase = "dec_done" => cr.out = cr.plain

(***************************************************************************)
(* C5: copyEncrypt writes len(b) + 16 bytes to the destination, the        *)
(* 16-byte initialization prefix first, and returns that number.           *)
(***************************************************************************)
C5_EncryptedLength ==
    cr.phase = "enc_done" =>
        /\ Len(cr.dst) = Len(cr.plain) + 16
        /\ cr.nw = Len(cr.plain) + 16
        /\ Take(cr.dst, 16) = cr.stream.iv

\* a payload of more than one byte has been encrypted in more than one read
C5_Witness ==
    /\ cr.phase = "enc_done"
    /\ Len(cr.plain) > 1
    /\ Len(cr.dst) = Len(cr.plain) + 16

(***************************************************************************)
(* server.go and p2p: nodes, their connections, the wire format.           *)
(***************************************************************************)
Nodes == {"A", "B", "C"}

\* the nodes that take part in a run, and their connections
Active == DOMAIN node
Conns == DOMAIN wire

\* FileServerOpts.ID and FileServerOpts.EncKey of each node
ID(n) == CASE n = "A" -> "idA" [] n = "B" -> "idB" [] n = "C" -> "idC"
EncKey(n) == IF n = "A" THEN 1 ELSE 2

\* the keys callers store and get in the network specifications
NetKeys == {"picture_0.png"}

\* the payloads callers store: one of every length up to MaxLen
NetPayloads == {p \in Payloads : \A i \in 1..Len(p) : p[i] = 65}

\* every order in which a range over the map S may visit its keys
RECURSIVE Perms(_)
Perms(S) ==
    IF S = {} THEN {<<>>}
    ELSE UNION {{<<x>> \o t : t \in Perms(S \ {x})} : x \in S}

\* Message{Payload: MessageStoreFile{ID, Key, Size}} / MessageGetFile{ID, Key}
MessageStoreFile(id, key, size) == [type |-> "StoreFile", ID |-> id, Key |-> key, Size |-> size]
MessageGetFile(id, key) == [type |-> "GetFile", ID |-> id, Key |-> key, Size |-> 0]
NoMessage == [type |-> "nil", ID |-> "", Key |-> "", Size |-> 0]

\* gob: a message is a byte count followed by that many bytes; strings are
\* stood for by one byte each (tabulated), the type by a three-byte header
idByte(id) == CASE id = "idA" -> 81 [] id = "idB" -> 82 [] id = "idC" -> 83
keyByte(key) ==
    CASE key = "44b2a6b69cffe1ea7922da80d75577e7" -> 91
      [] key = "305fd5bf1ca7efc6474192bdf0dc2cac" -> 92
      [] key = "6a7269469d0deaa737cbf2df8be39f7c" -> 93
typeByte(type) == IF type = "StoreFile" THEN 71 ELSE 72

\* gob.NewEncoder(buf).Encode(msg)
GobEncode(msg) ==
    <<6, 200, 201, typeByte(msg.type), idByte(msg.ID), keyByte(msg.Key), msg.Size>>

\* gob.NewDecoder(bytes.NewReader(payload)).Decode(&msg): the first message
\* of the payload when it is all there, an error otherwise; what follows
\* the first message is not looked at
GobDecode(payload) ==
    IF /\ Len(payload) >= 7
       /\ payload[1] = 6 /\ payload[2] = 200 /\ payload[3] = 201
       /\ payload[4] \in {71, 72}
       /\ payload[5] \in {81, 82, 83}
       /\ payload[6] \in {91, 92, 93}
    THEN [type |-> IF payload[4] = 71 THEN "StoreFile" ELSE "GetFile",
          ID   |-> CHOOSE id \in {"idA", "idB", "idC"} : idByte(id) = payload[5],
          Key  |-> CHOOSE k \in HashedKeys : keyByte(k) = payload[6],
          Size |-> IF payload[4] = 71 THEN payload[7] ELSE 0]
    ELSE NoMessage

\* (the eight bytes in the opposite order)
LittleEndian64_Reversed(n) ==
    [i \in 1..8 |-> CASE i = 8 -> n % 256
                      [] i = 7 -> (n \div 256) % 256
                      [] i = 6 -> (n \div 65536) % 256
                      [] OTHER -> 0]
\* binary.Write(peer, binary.LittleEndian, fileSize): eight bytes
\* (sizes of the model are below 2^24, so bytes 4 to 8 are zero)
LittleEndian64(n) ==
    [i \in 1..8 |-> CASE i = 1 -> n % 256
                      [] i = 2 -> (n \div 256) % 256
                      [] i = 3 -> (n \div 65536) % 256
                      [] OTHER -> 0]

\* a size no connection of the model ever delivers
Huge == 1073741824

\* binary.Read(peer, binary.LittleEndian, &fileSize): an int64, negative
\* when the top bit is set; values of 2^24 and more are stood for by Huge
FromLittleEndian64(bytes) ==
    IF bytes[8] >= 128 THEN -1
    ELSE IF \E i \in 4..8 : bytes[i] # 0 THEN Huge
    ELSE bytes[1] + 256 * bytes[2] + 65536 * bytes[3]

\* conn.Read(b) with room for `limit` bytes on a connection that holds
\* `avail` unread bytes: the counts it may return.  It blocks while nothing
\* has arrived and then returns what has, up to the room; the writes of the
\* model are far smaller than a segment, so they arrive whole and a Read
\* falls short only where the writer has not written yet.  Reads of several
\* goroutines on one connection are served in no particular order.
\* (a read that returns all that has arrived, whatever the room)
connRead_Whole(limit, avail) == IF avail > 0 THEN {avail} ELSE {}
connRead(limit, avail) == IF Min(limit, avail) > 0 THEN {Min(limit, avail)} ELSE {}

\* conn.Write(b) by a on its connection with b: the bytes join the wire
connWrite(w, a, b, bytes) == [w EXCEPT ![<<a, b>>] = @ \o bytes]

\* conn.Write by n on its connection with p succeeds while both ends are
\* open; with the other end gone the reset has come back and it fails
connUp(n, p) == rl[<<n, p>>].conn = "open" /\ rl[<<p, n>>].conn = "open"

\* conn.Read by n on its connection with p returns an error: the other end
\* is closed and every byte it sent has been read (io.EOF)
readFails(n, p) == wire[<<p, n>>] = <<>> /\ rl[<<p, n>>].conn = "closed"

\* WaitGroup.Done panics when the counter goes below zero; a panic ends the
\* process
wgDone(counter) == counter - 1

\* WaitGroup.Wait returns once the counter is zero
wgWait_Open(counter) == TRUE
wgWait(counter) == counter = 0

\* a read loop at its first Decode, with its end of the connection (`conn`:
\* "open", or "closed" once this end has been closed); `closed`, `decoded`,
\* `delivered` and `failed` are history: the CloseStream calls on the peer
\* since the loop last decoded a Stream tag, the messages the loop has
\* decoded, the last of them that the consumer of the channel has received,
\* whether a Read of the loop has returned an error, and how the handshake
\* and OnPeer went ("done" when both returned nil)
IdleReadLoop == [pc |-> "peek", payload |-> <<>>, closed |-> 0, decoded |-> 0, delivered |-> 0,
                 conn |-> "open", failed |-> FALSE, setup |-> "done"]

\* RPC{From, Payload}; `seq` is history, the message's number on its connection
RPC(from, payload, seq) == [From |-> from, Payload |-> payload, seq |-> seq]

\* t.rpcch <- rpc on a channel with room
chanSend_Lossy(ch, rpc) == ch
chanSend(ch, rpc) == Append(ch, rpc)

\* n takes part in the run and its process has not panicked
Alive(n) == n \in Active /\ ~node[n].crashed

\* the dispatch loop at its select; `skipped` is history: the last RPC it
\* took could not be decoded
IdleLoop == [pc |-> "recv", from |-> "", id |-> "", key |-> "", left |-> 0, off |-> 0,
             data |-> <<>>, skipped |-> FALSE]
\* `out` and `fail` are history: the bytes the call in progress (or the last
\* call) wrote to each peer, in order, and whether a write of it has failed;
\* `w` numbers the Write of the MultiWriter in progress (0 is the Stream tag)
IdleOp == [pc |-> "idle", call |-> "none", key |-> "", buf |-> <<>>, order |-> <<>>, i |-> 0,
           msg |-> <<>>, bufs |-> <<>>, acc |-> <<>>, left |-> 0, off |-> 0,
           stream |-> NewCTR(0, <<>>), nw |-> 0, w |-> 0, out |-> <<>>, fail |-> FALSE,
           res |-> [op |-> "none", key |-> "", err |-> FALSE, data |-> <<>>, n |-> 0]]

\* nothing is in flight and nothing is in progress anywhere
AtRest ==
    /\ \A l \in Conns : wire[l] = <<>> /\ rl[l].pc = "peek"
    /\ \A m \in Active : /\ rpcch[m] = <<>> /\ loop[m].pc = "recv"
                          /\ op[m].pc = "idle" /\ ~node[m].crashed

\* the network is at rest and every peer of n holds a blob of n's for key
Settled(n, key) ==
    /\ AtRest
    /\ \A p \in peers[n] : Has(disk[p], ID(n), hashKey(key))

\* the calls a node's caller makes, in this order, any of them left out
\* (the demo: store, delete the local copy, get)
Script == <<"Store", "Delete", "Get">>

\* the caller of n may make call c now; it is then past it in the script
MayCall(n, c) == \E j \in node[n].next..Len(Script) : Script[j] = c
\* `calls` is history: the calls made, each with its key, its data and
\* whether the network was at rest with a whole replica at every peer
Called(n, c, key, data) ==
    [node EXCEPT ![n].next = 1 + CHOOSE j \in node[n].next..Len(Script) : Script[j] = c,
                 ![n].calls = Append(@, [op |-> c, key |-> key, data |-> data,
                                         settled |-> Settled(n, key)])]

\* a node whose Start has bound the listener, started the accept loop and
\* entered the dispatch loop: the caller's place in the script (`next`), the
\* history of its calls, the frames its program has sent on its own, whether
\* the process has panicked, whether quitch is closed, the listener, the
\* accept loop, the holder of peerLock (the peer whose OnPeer holds it),
\* the bootstrap addresses whose Dial is still to run, and how net.Listen
\* went
StartedNode(next) ==
    [next |-> next, calls |-> <<>>, frames |-> 0, crashed |-> FALSE,
     quit |-> FALSE, listener |-> "open", accept |-> "running", lock |-> "",
     dials |-> {}, bind |-> "ok", accepterr |-> 0, nilconn |-> 0, werr |-> {}]

\* The state once the connections of `links` are up: both ends have run
\* the handshake and OnPeer, and every read loop is at its first Decode.
\* `callers` are the nodes whose caller runs the script.
NetInit(links, callers) ==
    LET active == {l[1] : l \in links}
    IN  /\ disk = [n \in active |-> EmptyFS]
        /\ last = NoCall
        /\ cr = [phase |-> "off"]
        /\ peers = [n \in active |-> {p \in active : <<n, p>> \in links}]
        /\ wire = [l \in links |-> <<>>]
        /\ rl = [l \in links |-> IdleReadLoop]
        /\ wg = [l \in links |-> 0]
        /\ rpcch = [n \in active |-> <<>>]
        /\ loop = [n \in active |-> IdleLoop]
        /\ op = [n \in active |-> IdleOp]
        /\ node = [n \in active |->
                     StartedNode(IF n \in callers THEN 1 ELSE Len(Script) + 1)]

(***************************************************************************)
(* TCPTransport.handleConn: the read loop of node n for its peer p.        *)
(***************************************************************************)
\* DefaultDecoder.Decode, the read of the tag byte
ReadLoopPeek(n, p) ==
    /\ Alive(n)
    /\ p \in peers[n]
    /\ rl[<<n, p>>].pc = "peek"
    /\ wire[<<p, n>>] # <<>>
    /\ wire' = [wire EXCEPT ![<<p, n>>] = Tail(@)]
    /\ rl' = [rl EXCEPT ![<<n, p>>].pc =
                            IF Head(wire[<<p, n>>]) = IncomingStream THEN "add" ELSE "payload",
                         ![<<n, p>>].closed = 0]
    /\ UNCHANGED <<disk, last, cr, peers, wg, rpcch, loop, op, node>>

\* DefaultDecoder.Decode, the one read of up to 1028 bytes of payload: it
\* returns what the connection holds at that time, at least one byte
ReadLoopPayload(n, p) ==
    /\ Alive(n)
    /\ p \in peers[n]
    /\ rl[<<n, p>>].pc = "payload"
    /\ \E k \in connRead(maxFrame, Len(wire[<<p, n>>])) :
          /\ wire' = [wire EXCEPT ![<<p, n>>] = Drop(@, k)]
          /\ rl' = [rl EXCEPT ![<<n, p>>].pc = "send",
                               ![<<n, p>>].payload = Take(wire[<<p, n>>], k),
                               ![<<n, p>>].decoded = @ + 1]
    /\ UNCHANGED <<disk, last, cr, peers, wg, rpcch, loop, op, node>>

\* DefaultDecoder.Decode when the read of the tag byte returns an error:
\* Decode returns nil with the RPC as it was, not a stream and without
\* payload, and the loop goes on to send it
ReadLoopPeekError(n, p) ==
    /\ Alive(n)
    /\ p \in peers[n]
    /\ rl[<<n, p>>].pc = "peek"
    /\ readFails(n, p)
    /\ rl' = [rl EXCEPT ![<<n, p>>].pc = "send", ![<<n, p>>].payload = <<>>,
                         ![<<n, p>>].closed = 0, ![<<n, p>>].failed = TRUE]
    /\ UNCHANGED <<disk, last, cr, peers, wire, wg, rpcch, loop, op, node>>

\* DefaultDecoder.Decode when the read of the payload returns an error:
\* Decode returns it, handleConn returns and its deferred function closes
\* the connection
ReadLoopPayloadError(n, p) ==
    /\ Alive(n)
    /\ p \in peers[n]
    /\ rl[<<n, p>>].pc = "payload"
    /\ readFails(n, p)
    /\ rl' = [rl EXCEPT ![<<n, p>>].pc = "exit", ![<<n, p>>].conn = "closed",
                         ![<<n, p>>].failed = TRUE]
    /\ UNCHANGED <<disk, last, cr, peers, wire, wg, rpcch, loop, op, node>>

\* t.rpcch <- rpc: blocks while the channel is full
ReadLoopSend(n, p) ==
    /\ Alive(n)
    /\ p \in peers[n]
    /\ rl[<<n, p>>].pc = "send"
    /\ Len(rpcch[n]) < rpcchCap
    /\ rpcch' = [rpcch EXCEPT ![n] =
                      chanSend(@, RPC(p, rl[<<n, p>>].payload, rl[<<n, p>>].decoded))]
    /\ rl' = [rl EXCEPT ![<<n, p>>].pc = "peek", ![<<n, p>>].payload = <<>>]
    /\ UNCHANGED <<disk, last, cr, peers, wire, wg, loop, op, node>>

\* peer.wg.Add(1) after a Stream tag
ReadLoopAdd(n, p) ==
    /\ Alive(n)
    /\ p \in peers[n]
    /\ rl[<<n, p>>].pc = "add"
    /\ wg' = [wg EXCEPT ![<<n, p>>] = @ + 1]
    /\ rl' = [rl EXCEPT ![<<n, p>>].pc = "wait"]
    /\ UNCHANGED <<disk, last, cr, peers, wire, rpcch, loop, op, node>>

\* peer.wg.Wait() returns once the counter is zero
ReadLoopWait(n, p) ==
    /\ Alive(n)
    /\ p \in peers[n]
    /\ rl[<<n, p>>].pc = "wait"
    /\ wgWait(wg[<<n, p>>])
    /\ rl' = [rl EXCEPT ![<<n, p>>].pc = "peek", ![<<n, p>>].closed = 0]
    /\ UNCHANGED <<disk, last, cr, peers, wire, wg, rpcch, loop, op, node>>

(***************************************************************************)
(* FileServer.loop and the handlers it calls, on node n.                   *)
(***************************************************************************)
\* (a write that decrypts what it is given under the receiving node's key)
heldFileWrite_Decrypt(fs, id, key, off, bytes) ==
    IF Has(fs, id, key)
    THEN fileWrite(fs, id, key, off, XORKeyStream(NewCTR(2, <<>>), bytes))
    ELSE fs
\* f.Write(bytes) at offset off of the file a handler holds open; a file
\* removed meanwhile takes the bytes with it
heldFileWrite(fs, id, key, off, bytes) ==
    IF Has(fs, id, key) THEN fileWrite(fs, id, key, off, bytes) ELSE fs

\* the history of a connection's read loop once the consumer has rpc
received(loops, n, rpc) ==
    IF <<n, rpc.From>> \in DOMAIN loops
    THEN [loops EXCEPT ![<<n, rpc.From>>].delivered = rpc.seq]
    ELSE loops

\* the history of a connection's read loop once CloseStream has been called
closedOnce(loops, n, p) == [loops EXCEPT ![<<n, p>>].closed = @ + 1]

\* the dispatch loop after gob's Decode has returned an error: the error is
\* logged, handleMessage finds no payload type to switch on and returns nil,
\* and the loop is back at its select
afterDecodeError_Return(lp) == [lp EXCEPT !.pc = "exited", !.skipped = TRUE]
afterDecodeError(lp) == [lp EXCEPT !.skipped = TRUE]

\* one RPC is taken off the channel, decoded and dispatched:
\*  - an undecodable payload is logged, handleMessage then does nothing;
\*  - handleMessageStoreFile looks the sender up and opens the file;
\*  - handleMessageGetFile checks Has, opens the blob, looks the sender up.
LoopRecv(n) ==
    /\ Alive(n)
    /\ loop[n].pc = "recv"
    /\ rpcch[n] # <<>>
    /\ rpcch' = [rpcch EXCEPT ![n] = Tail(@)]
    /\ rl' = received(rl, n, Head(rpcch[n]))
    /\ LET rpc == Head(rpcch[n])
           msg == GobDecode(rpc.Payload)
       IN  \/ /\ msg.type = "nil"
              /\ loop' = [loop EXCEPT ![n] = afterDecodeError(@)]
              /\ UNCHANGED disk
           \/ /\ msg.type = "StoreFile"
              /\ rpc.From \notin peers[n]
              /\ loop' = [loop EXCEPT ![n] = IdleLoop]
              /\ UNCHANGED disk
           \/ /\ msg.type = "StoreFile"
              /\ rpc.From \in peers[n]
              /\ disk' = [disk EXCEPT ![n] = openFileForWriting(@, msg.ID, msg.Key)]
              /\ loop' = [loop EXCEPT ![n] =
                            [IdleLoop EXCEPT !.pc = IF msg.Size > 0 THEN "store_copy" ELSE "store_close",
                                             !.from = rpc.From, !.id = msg.ID,
                                             !.key = msg.Key, !.left = msg.Size]]
           \/ /\ msg.type = "GetFile"
              /\ ~Has(disk[n], msg.ID, msg.Key) \/ rpc.From \notin peers[n]
              /\ loop' = [loop EXCEPT ![n] = IdleLoop]
              /\ UNCHANGED disk
           \/ /\ msg.type = "GetFile"
              /\ Has(disk[n], msg.ID, msg.Key)
              /\ rpc.From \in peers[n]
              /\ loop' = [loop EXCEPT ![n] =
                            [IdleLoop EXCEPT !.pc = "get_tag", !.from = rpc.From, !.id = msg.ID,
                                             !.key = msg.Key,
                                             !.data = Read(disk[n], msg.ID, msg.Key).data]]
              /\ UNCHANGED disk
    /\ UNCHANGED <<last, cr, peers, wire, wg, op, node>>

\* handleMessageStoreFile: one read of io.Copy(f, io.LimitReader(peer,
\* msg.Size)); the limit reached, the next read is EOF and the copy ends
LoopStoreCopy(n) ==
    /\ Alive(n)
    /\ loop[n].pc = "store_copy"
    /\ LET from == loop[n].from
       IN  \E k \in connRead(Min(loop[n].left, copyBufSize), Len(wire[<<from, n>>])) :
              /\ wire' = [wire EXCEPT ![<<from, n>>] = Drop(@, k)]
              /\ disk' = [disk EXCEPT ![n] =
                            heldFileWrite(@, loop[n].id, loop[n].key, loop[n].off,
                                          Take(wire[<<from, n>>], k))]
              /\ loop' = [loop EXCEPT ![n].left = @ - k, ![n].off = @ + k,
                                      ![n].pc = IF loop[n].left = k THEN "store_close"
                                                ELSE "store_copy"]
    /\ UNCHANGED <<last, cr, peers, rl, wg, rpcch, op, node>>

\* handleMessageStoreFile: peer.CloseStream()
LoopStoreClose(n) ==
    /\ Alive(n)
    /\ loop[n].pc = "store_close"
    /\ LET c == wgDone(wg[<<n, loop[n].from>>])
       IN  IF c < 0
           THEN /\ node' = [node EXCEPT ![n].crashed = TRUE]
                /\ UNCHANGED <<wg, loop>>
           ELSE /\ wg' = [wg EXCEPT ![<<n, loop[n].from>>] = c]
                /\ loop' = [loop EXCEPT ![n] = IdleLoop]
                /\ UNCHANGED node
    /\ rl' = closedOnce(rl, n, loop[n].from)
    /\ UNCHANGED <<disk, last, cr, peers, wire, rpcch, op>>

\* handleMessageGetFile: peer.Send([]byte{p2p.IncomingStream})
LoopGetTag(n) ==
    /\ Alive(n)
    /\ loop[n].pc = "get_tag"
    /\ wire' = connWrite(wire, n, loop[n].from, <<IncomingStream>>)
    /\ loop' = [loop EXCEPT ![n].pc = "get_size"]
    /\ UNCHANGED <<disk, last, cr, peers, rl, wg, rpcch, op, node>>

\* handleMessageGetFile: binary.Write(peer, binary.LittleEndian, fileSize)
LoopGetSize(n) ==
    /\ Alive(n)
    /\ loop[n].pc = "get_size"
    /\ wire' = connWrite(wire, n, loop[n].from, LittleEndian64(Len(loop[n].data)))
    /\ loop' = [loop EXCEPT ![n].pc = "get_copy"]
    /\ UNCHANGED <<disk, last, cr, peers, rl, wg, rpcch, op, node>>

\* handleMessageGetFile: io.Copy(peer, r), the blob's bytes as they are
LoopGetCopy(n) ==
    /\ Alive(n)
    /\ loop[n].pc = "get_copy"
    /\ wire' = connWrite(wire, n, loop[n].from, loop[n].data)
    /\ loop' = [loop EXCEPT ![n] = IdleLoop]
    /\ UNCHANGED <<disk, last, cr, peers, rl, wg, rpcch, op, node>>

(***************************************************************************)
(* FileServer.Store, FileServer.Get and the caller's store.Delete on node  *)
(* n.  A caller makes one call at a time.                                  *)
(***************************************************************************)
\* the history of a call's writes, with `bytes` written to p
logWrite(out, p, bytes) ==
    [q \in DOMAIN out \cup {p} |->
        IF q = p THEN (IF p \in DOMAIN out THEN out[p] ELSE <<>>) \o bytes ELSE out[q]]

\* a call back at idle, its result and its history kept
Returned(o, r) == [IdleOp EXCEPT !.res = r, !.out = o.out, !.fail = o.fail]

Result(o, key, err, data, cnt) == [op |-> o, key |-> key, err |-> err, data |-> data, n |-> cnt]

\* where a call goes after broadcast: the sleep of Store or of Get
AfterBroadcast_Return(call) == IF call = "Store" THEN "store_sleep" ELSE "get_ret"
AfterBroadcast(call) == IF call = "Store" THEN "store_sleep" ELSE "get_sleep"

\* the Size that Store announces for a blob of `size` bytes
announcedSize_Plain(size) == size
announcedSize(size) == size + encPadding

\* Store up to the broadcast: the local write through the tee, the message
StoreCall(n, key, data) ==
    /\ Alive(n)
    /\ op[n].pc = "idle"
    /\ MayCall(n, "Store")
    /\ node' = Called(n, "Store", key, data)
    /\ disk' = [disk EXCEPT ![n] = Write(@, ID(n), key, data)]
    /\ \E order \in Perms(peers[n]) :
          op' = [op EXCEPT ![n] =
                   [IdleOp EXCEPT !.pc = IF order = <<>> THEN "store_sleep" ELSE "bc_tag",
                                  !.call = "Store", !.key = key, !.buf = data,
                                  !.order = order, !.i = 1,
                                  !.msg = GobEncode(MessageStoreFile(ID(n), hashKey(key),
                                                      announcedSize(Len(data))))]]
    /\ UNCHANGED <<last, cr, peers, wire, rl, wg, rpcch, loop>>

\* the caller removes the node's own blob: s.store.Delete(s.ID, key)
DeleteCall(n, key) ==
    /\ Alive(n)
    /\ op[n].pc = "idle"
    /\ MayCall(n, "Delete")
    /\ node' = Called(n, "Delete", key, <<>>)
    /\ disk' = [disk EXCEPT ![n] = Delete(@, ID(n), key)]
    /\ op' = [op EXCEPT ![n] = [IdleOp EXCEPT !.res = Result("Delete", key, FALSE, <<>>, 0)]]
    /\ UNCHANGED <<last, cr, peers, wire, rl, wg, rpcch, loop>>

\* Get: s.store.Has(s.ID, key)
hasLocal_Never(fs, id, key) == FALSE
hasLocal(fs, id, key) == Has(fs, id, key)

\* Get when the blob is in the local store: the local read is returned
GetLocal(n, key) ==
    /\ Alive(n)
    /\ op[n].pc = "idle"
    /\ MayCall(n, "Get")
    /\ hasLocal(disk[n], ID(n), key)
    /\ node' = Called(n, "Get", key, <<>>)
    /\ op' = [op EXCEPT ![n] =
                [IdleOp EXCEPT !.res = Result("GetLocal", key, FALSE,
                                              Read(disk[n], ID(n), key).data, 0)]]
    /\ UNCHANGED <<disk, last, cr, peers, wire, rl, wg, rpcch, loop>>

\* Get when it is not: up to the broadcast of MessageGetFile
GetCall(n, key) ==
    /\ Alive(n)
    /\ op[n].pc = "idle"
    /\ MayCall(n, "Get")
    /\ ~hasLocal(disk[n], ID(n), key)
    /\ node' = Called(n, "Get", key, <<>>)
    /\ \E order \in Perms(peers[n]) :
          op' = [op EXCEPT ![n] =
                   [IdleOp EXCEPT !.pc = IF order = <<>> THEN "get_sleep" ELSE "bc_tag",
                                  !.call = "Get", !.key = key,
                                  !.order = order, !.i = 1,
                                  !.msg = GobEncode(MessageGetFile(ID(n), hashKey(key)))]]
    /\ UNCHANGED <<disk, last, cr, peers, wire, rl, wg, rpcch, loop>>

\* broadcast: peer.Send([]byte{p2p.IncomingMessage}) to the next peer; the
\* error of this Send is not looked at
BroadcastTag(n) ==
    /\ Alive(n)
    /\ op[n].pc = "bc_tag"
    /\ IF connUp(n, op[n].order[op[n].i])
       THEN /\ wire' = connWrite(wire, n, op[n].order[op[n].i], <<IncomingMessage>>)
            /\ op' = [op EXCEPT ![n].pc = "bc_msg",
                                ![n].out = logWrite(@, op[n].order[op[n].i], <<IncomingMessage>>)]
       ELSE /\ op' = [op EXCEPT ![n].pc = "bc_msg", ![n].fail = TRUE]
            /\ UNCHANGED wire
    /\ UNCHANGED <<disk, last, cr, peers, rl, wg, rpcch, loop, node>>

\* broadcast: peer.Send(buf.Bytes()) to that peer, then the next peer; an
\* error of this Send ends broadcast, and the call returns it
BroadcastMsg(n) ==
    /\ Alive(n)
    /\ op[n].pc = "bc_msg"
    /\ IF connUp(n, op[n].order[op[n].i])
       THEN /\ wire' = connWrite(wire, n, op[n].order[op[n].i], op[n].msg)
            /\ op' = [op EXCEPT ![n].i = @ + 1,
                                ![n].out = logWrite(@, op[n].order[op[n].i], op[n].msg),
                                ![n].pc = IF op[n].i = Len(op[n].order)
                                          THEN AfterBroadcast(op[n].call) ELSE "bc_tag"]
       ELSE /\ op' = [op EXCEPT ![n] =
                        Returned([op[n] EXCEPT !.fail = TRUE],
                                 Result(op[n].call, op[n].key, TRUE, <<>>, 0))]
            /\ UNCHANGED wire
    /\ UNCHANGED <<disk, last, cr, peers, rl, wg, rpcch, loop, node>>

\* Store after the sleep: the peers are collected into a MultiWriter; the
\* writes that follow are the Stream tag, then copyEncrypt's IV, then the
\* buffer (read whole from the bytes.Buffer) encrypted, each to every peer
StoreFanOut(n) ==
    /\ Alive(n)
    /\ op[n].pc = "store_sleep"
    /\ \E order \in Perms(peers[n]), iv \in IVs :
          LET e    == copyEncryptAll(EncKey(n), iv, op[n].buf)
              bufs == <<<<IncomingStream>>, iv>> \o
                      (IF op[n].buf = <<>> THEN <<>> ELSE <<Drop(e.out, BlockSize)>>)
          IN  op' = [op EXCEPT ![n].order = order, ![n].i = 1, ![n].nw = e.n,
                               ![n].bufs = IF order = <<>> THEN <<>> ELSE bufs,
                               ![n].pc = "store_mw"]
    /\ UNCHANGED <<disk, last, cr, peers, wire, rl, wg, rpcch, loop, node>>

\* io.MultiWriter.Write: the buffer goes to one peer after the other and
\* the Write ends at the first peer whose Write fails.  Store does not look
\* at the result of the Write of the Stream tag; an error of a Write of
\* copyEncrypt is returned.  When nothing is left to write Store returns.
StoreMultiWrite(n) ==
    /\ Alive(n)
    /\ op[n].pc = "store_mw"
    /\ IF op[n].bufs = <<>>
       THEN /\ op' = [op EXCEPT ![n] =
                        Returned(op[n], Result("Store", op[n].key, FALSE, op[n].buf, op[n].nw))]
            /\ UNCHANGED wire
       ELSE IF connUp(n, op[n].order[op[n].i])
       THEN /\ wire' = connWrite(wire, n, op[n].order[op[n].i], Head(op[n].bufs))
            /\ op' = [op EXCEPT ![n].i = IF op[n].i = Len(op[n].order) THEN 1 ELSE @ + 1,
                                ![n].out = logWrite(@, op[n].order[op[n].i], Head(op[n].bufs)),
                                ![n].bufs = IF op[n].i = Len(op[n].order) THEN Tail(@) ELSE @,
                                ![n].w = IF op[n].i = Len(op[n].order) THEN @ + 1 ELSE @]
       ELSE IF op[n].w = 0
       THEN /\ op' = [op EXCEPT ![n].i = 1, ![n].bufs = Tail(@), ![n].w = 1, ![n].fail = TRUE]
            /\ UNCHANGED wire
       ELSE /\ op' = [op EXCEPT ![n] =
                        Returned([op[n] EXCEPT !.fail = TRUE],
                                 Result("Store", op[n].key, TRUE, op[n].buf, 0))]
            /\ UNCHANGED wire
    /\ UNCHANGED <<disk, last, cr, peers, rl, wg, rpcch, loop, node>>

\* Get after the sleep: the range over the peers starts
GetFanIn(n) ==
    /\ Alive(n)
    /\ op[n].pc = "get_sleep"
    /\ \E order \in Perms(peers[n]) :
          op' = [op EXCEPT ![n].order = order, ![n].i = 1, ![n].acc = <<>>,
                           ![n].pc = IF order = <<>> THEN "get_ret" ELSE "get_size"]
    /\ UNCHANGED <<disk, last, cr, peers, wire, rl, wg, rpcch, loop, node>>

\* binary.Read(peer, binary.LittleEndian, &fileSize): reads until it has
\* eight bytes
GetReadSize(n) ==
    /\ Alive(n)
    /\ op[n].pc = "get_size"
    /\ LET p == op[n].order[op[n].i]
       IN  \E k \in connRead(8 - Len(op[n].acc), Len(wire[<<p, n>>])) :
              LET acc == op[n].acc \o Take(wire[<<p, n>>], k)
              IN  /\ wire' = [wire EXCEPT ![<<p, n>>] = Drop(@, k)]
                  /\ op' = [op EXCEPT ![n].acc = IF Len(acc) = 8 THEN <<>> ELSE acc,
                                      ![n].left = IF Len(acc) = 8 THEN FromLittleEndian64(acc) ELSE 0,
                                      ![n].pc = IF Len(acc) = 8 THEN "get_open" ELSE "get_size"]
    /\ UNCHANGED <<disk, last, cr, peers, rl, wg, rpcch, loop, node>>

\* Store.WriteDecrypt: openFileForWriting
GetOpen(n) ==
    /\ Alive(n)
    /\ op[n].pc = "get_open"
    /\ disk' = [disk EXCEPT ![n] = openFileForWriting(@, ID(n), op[n].key)]
    /\ op' = [op EXCEPT ![n].pc = "get_iv", ![n].off = 0]
    /\ UNCHANGED <<last, cr, peers, wire, rl, wg, rpcch, loop, node>>

\* copyDecrypt: the one src.Read(iv) on io.LimitReader(peer, fileSize); a
\* limit of zero or less makes it EOF, and Get returns the error
GetReadIV(n) ==
    /\ Alive(n)
    /\ op[n].pc = "get_iv"
    /\ LET p == op[n].order[op[n].i]
       IN  IF op[n].left <= 0
           THEN /\ op' = [op EXCEPT ![n] =
                            Returned(op[n], Result("Get", op[n].key, TRUE, <<>>, 0))]
                /\ UNCHANGED wire
           ELSE \E k \in connRead(Min(BlockSize, op[n].left), Len(wire[<<p, n>>])) :
                   /\ wire' = [wire EXCEPT ![<<p, n>>] = Drop(@, k)]
                   /\ op' = [op EXCEPT ![n].left = @ - k,
                                       ![n].stream = NewCTR(EncKey(n), ivBuffer(Take(wire[<<p, n>>], k))),
                                       ![n].nw = copyStreamStart(BlockSize),
                                       ![n].pc = IF op[n].left = k THEN "get_close" ELSE "get_copy"]
    /\ UNCHANGED <<disk, last, cr, peers, rl, wg, rpcch, loop, node>>

\* copyStream inside WriteDecrypt: one read of the limited reader, the
\* bytes decrypted and written to the file; the limit reached, the copy ends
GetCopy(n) ==
    /\ Alive(n)
    /\ op[n].pc = "get_copy"
    /\ LET p == op[n].order[op[n].i]
       IN  \E k \in connRead(Min(copyBufSize, op[n].left), Len(wire[<<p, n>>])) :
              /\ wire' = [wire EXCEPT ![<<p, n>>] = Drop(@, k)]
              /\ disk' = [disk EXCEPT ![n] =
                            heldFileWrite(@, ID(n), op[n].key, op[n].off,
                                          XORKeyStream(op[n].stream, Take(wire[<<p, n>>], k)))]
              /\ op' = [op EXCEPT ![n].left = @ - k, ![n].off = @ + k, ![n].nw = @ + k,
                                  ![n].stream = Advance(@, k),
                                  ![n].pc = IF op[n].left = k THEN "get_close" ELSE "get_copy"]
    /\ UNCHANGED <<last, cr, peers, rl, wg, rpcch, loop, node>>

\* Get: peer.CloseStream(), then the next peer of the range
GetClose(n) ==
    /\ Alive(n)
    /\ op[n].pc = "get_close"
    /\ LET p == op[n].order[op[n].i]
           c == wgDone(wg[<<n, p>>])
       IN  IF c < 0
           THEN /\ node' = [node EXCEPT ![n].crashed = TRUE]
                /\ UNCHANGED <<wg, op>>
           ELSE /\ wg' = [wg EXCEPT ![<<n, p>>] = c]
                /\ op' = [op EXCEPT ![n].i = @ + 1, ![n].acc = <<>>,
                                    ![n].pc = IF op[n].i = Len(op[n].order)
                                              THEN "get_ret" ELSE "get_size"]
                /\ UNCHANGED node
    /\ rl' = closedOnce(rl, n, op[n].order[op[n].i])
    /\ UNCHANGED <<disk, last, cr, peers, wire, rpcch, loop>>

\* Get: the final s.store.Read(s.ID, key)
GetReturn(n) ==
    /\ Alive(n)
    /\ op[n].pc = "get_ret"
    /\ LET r == Read(disk[n], ID(n), op[n].key)
       IN  op' = [op EXCEPT ![n] =
                    Returned(op[n], Result("Get", op[n].key, r.err, r.data, 0))]
    /\ UNCHANGED <<disk, last, cr, peers, wire, rl, wg, rpcch, loop, node>>

(***************************************************************************)
(* The nodes together.                                                     *)
(***************************************************************************)
\* the read loops of n
ReadLoopStep(n) ==
    \E p \in Nodes \ {n} :
       \/ ReadLoopPeek(n, p)
       \/ ReadLoopPayload(n, p)
       \/ ReadLoopSend(n, p)
       \/ ReadLoopAdd(n, p)
       \/ ReadLoopWait(n, p)

\* what a Store takes, at the node that stores and at those that receive
StoreStep(n) ==
    \/ ReadLoopStep(n)
    \/ LoopRecv(n)
    \/ LoopStoreCopy(n)
    \/ LoopStoreClose(n)
    \/ \E key \in NetKeys, data \in NetPayloads : StoreCall(n, key, data)
    \/ BroadcastTag(n)
    \/ BroadcastMsg(n)
    \/ StoreFanOut(n)
    \/ StoreMultiWrite(n)

\* what a Get and a Delete add to it
GetStep(n) ==
    \/ LoopGetTag(n)
    \/ LoopGetSize(n)
    \/ LoopGetCopy(n)
    \/ \E key \in NetKeys : DeleteCall(n, key)
    \/ \E key \in NetKeys : GetLocal(n, key)
    \/ \E key \in NetKeys : GetCall(n, key)
    \/ GetFanIn(n)
    \/ GetReadSize(n)
    \/ GetOpen(n)
    \/ GetReadIV(n)
    \/ GetCopy(n)
    \/ GetClose(n)
    \/ GetReturn(n)

NodeStep(n) == StoreStep(n) \/ GetStep(n)

Next == \E n \in Nodes : NodeStep(n)

\* A and B connected, A's caller running the script
Init == NetInit({<<"A", "B">>, <<"B", "A">>}, {"A"})

Spec == Init /\ [][Next]_vars

\* A connected to B and to C, A's caller storing
StarInit == NetInit({<<"A", "B">>, <<"B", "A">>, <<"A", "C">>, <<"C", "A">>}, {"A"})

StarNext == \E n \in Nodes : StoreStep(n)

SpecStar == StarInit /\ [][StarNext]_vars

(***************************************************************************)
(* The round trip through a peer, and Get.                                 *)
(***************************************************************************)
\* the calls A's caller has made; with three of them they are the script's
\* Store, Delete and Get
callsOfA == node["A"].calls

\* A stored, deleted its copy while the network was at rest with the replica
\* at B, and has called Get
RoundTripCalled == Len(callsOfA) = 3 /\ callsOfA[2].settled

\* C1: after A.Store(k, d) has completed and B has handled the StoreFile
\* announcement, A deletes its local copy and calls A.Get(k): the Get goes
\* on to return, without error, content equal to d (A does not panic on the
\* way, and what a returned Get hands back is d).
C1_RoundTrip ==
    RoundTripCalled =>
        /\ ~node["A"].crashed
        /\ op["A"].pc = "idle" => ~op["A"].res.err /\ op["A"].res.data = callsOfA[1].data

\* C9: when Get misses locally and the peer holds a replica and replies,
\* the eight bytes Get reads from the peer are the size prefix the peer
\* sent, the length of the replica; Get gets through closeStream on the
\* peer without a panic; and when it has returned the key is in the local
\* store and the peer's read loop is out of stream mode, its gate open.
C9_GetFromPeers ==
    RoundTripCalled =>
        /\ op["A"].pc = "get_open" => op["A"].left = Len(callsOfA[1].data) + 16
        /\ op["A"].call = "Get" => ~node["A"].crashed
        /\ op["A"].res.op = "Get" =>
              /\ Has(disk["A"], ID("A"), callsOfA[3].key)
              /\ \A p \in peers["A"] : rl[<<"A", p>>].pc # "add" /\ wg[<<"A", p>>] = 0

\* n's caller makes a Get call in this step
IsGetCall(n) ==
    /\ Len(node'[n].calls) = Len(node[n].calls) + 1
    /\ node'[n].calls[Len(node'[n].calls)].op = "Get"

\* C8: a Get of a key present in the local store under the node's own ID
\* returns the local content in that step, writes no byte to any
\* connection (no GetFile broadcast) and changes no stored blob.
C8_LocalGet ==
    [][\A n \in Active :
          LET key == node'[n].calls[Len(node'[n].calls)].key
          IN  (IsGetCall(n) /\ Has(disk[n], ID(n), key))
              => /\ op'[n].pc = "idle"
                 /\ ~op'[n].res.err
                 /\ op'[n].res.data = Read(disk[n], ID(n), key).data
                 /\ op'[n].out = <<>>
                 /\ wire' = wire
                 /\ disk' = disk]_vars

\* a Get has returned a non-empty blob from the local store
C8_Witness ==
    /\ op["A"].res.op = "GetLocal"
    /\ op["A"].res.data # <<>>
    /\ op["A"].res.data = callsOfA[1].data

(***************************************************************************)
(* The stream gate of a connection's read loop.                            *)
(***************************************************************************)
\* the read loop of connection l is past a Stream tag and not yet released
InStreamMode(l) == rl[l].pc \in {"add", "wait"}

\* C10: a read loop that has decoded a Stream tag takes no byte off its
\* connection and enqueues nothing; the only step it takes out of stream
\* mode is the return of Wait, after CloseStream has been called on the
\* peer, and it leaves the connection as it is, so decoding resumes at the
\* next unread byte.
C10_StreamGate ==
    [][\A l \in Conns :
          (InStreamMode(l) /\ rl'[l].pc # rl[l].pc)
          => /\ wire' = wire
             /\ rpcch' = rpcch
             /\ rl'[l].pc \in {"wait", "peek"}
             /\ rl'[l].pc = "peek" => rl[l].closed > 0]_vars

\* a read loop has been held at the gate, CloseStream has now been called
\* on the peer, and the loop is about to resume
C10_Witness ==
    \E l \in Conns :
        /\ rl[l].pc = "wait" /\ wg[l] = 0 /\ rl[l].closed = 1
        /\ ~node[l[1]].crashed

(***************************************************************************)
(* What Store sends.                                                       *)
(***************************************************************************)
\* the bytes a Store of data under key by node n sends to a peer up to and
\* with the Stream tag: the frame of the one StoreFile message, the tag
storeHead(n, key, data) ==
    <<IncomingMessage>>
        \o GobEncode(MessageStoreFile(ID(n), hashKey(key), Len(data) + 16))
        \o <<IncomingStream>>

\* C7: a Store(key, data) on node n that has returned has sent each peer of
\* the peer map one StoreFile message with ID = n, Key = digest(key) and
\* Size = len(data) + 16, then the Stream tag, then exactly Size bytes.
C7_StoreSends ==
    \A n \in Active :
        op[n].res.op = "Store" =>
            \A p \in peers[n] :
                LET head == storeHead(n, op[n].res.key, op[n].res.data)
                IN  /\ p \in DOMAIN op[n].out
                    /\ Take(op[n].out[p], Len(head)) = head
                    /\ Len(op[n].out[p]) = Len(head) + Len(op[n].res.data) + 16

\* a Store of a non-empty payload has returned on a node with two peers
C7_Witness ==
    /\ op["A"].res.op = "Store"
    /\ op["A"].res.data # <<>>
    /\ Cardinality(peers["A"]) = 2
    /\ \A p \in peers["A"] : Len(op["A"].out[p]) > Len(op["A"].res.data) + 16

(***************************************************************************)
(* The inbound channel of the transport under load.                        *)
(***************************************************************************)
\* the messages a full channel holds
Prefilled == rpcchCap

\* the messages the remote peers have sent on their own
framesSent == node["B"].frames + node["C"].frames

\* the frame of a GetFile message from p for a key that no node holds
getFrame(p) == GobEncode(MessageGetFile(ID(p), hashKey("picture_0.png")))

\* the program of a remote peer p sends node n a control message the way
\* broadcast does: peer.Send of the tag, peer.Send of the encoded message
PeerSend(p, n) ==
    /\ Alive(p)
    /\ n \in peers[p]
    /\ connUp(p, n)
    /\ framesSent < MaxFrames
    /\ node' = [node EXCEPT ![p].frames = @ + 1]
    /\ wire' = connWrite(connWrite(wire, p, n, <<IncomingMessage>>), p, n, getFrame(p))
    /\ UNCHANGED <<disk, last, cr, peers, rl, wg, rpcch, loop, op>>

\* A is connected to B and to C.  B has sent Prefilled messages, A's read
\* loop has decoded and enqueued them, and the dispatch loop of A has not
\* taken one yet: the channel is full.
QueueInit ==
    /\ disk = [n \in Nodes |-> EmptyFS]
    /\ last = NoCall
    /\ cr = [phase |-> "off"]
    /\ peers = [n \in Nodes |-> IF n = "A" THEN {"B", "C"} ELSE {"A"}]
    /\ wire = [l \in {<<"A", "B">>, <<"B", "A">>, <<"A", "C">>, <<"C", "A">>} |-> <<>>]
    /\ rl = [l \in {<<"A", "B">>, <<"B", "A">>, <<"A", "C">>, <<"C", "A">>} |->
                IF l = <<"A", "B">> THEN [IdleReadLoop EXCEPT !.decoded = Prefilled]
                ELSE IdleReadLoop]
    /\ wg = [l \in {<<"A", "B">>, <<"B", "A">>, <<"A", "C">>, <<"C", "A">>} |-> 0]
    /\ rpcch = [n \in Nodes |->
                   IF n = "A" THEN [i \in 1..Prefilled |-> RPC("B", getFrame("B"), i)]
                   ELSE <<>>]
    /\ loop = [n \in Nodes |-> IdleLoop]
    /\ op = [n \in Nodes |-> IdleOp]
    /\ node = [n \in Nodes |-> StartedNode(Len(Script) + 1)]

\* the goroutines of A's transport and A's dispatch loop
QueueStep ==
    \/ \E p \in {"B", "C"} :
          \/ ReadLoopPeek("A", p)
          \/ ReadLoopPayload("A", p)
          \/ ReadLoopSend("A", p)
    \/ LoopRecv("A")

QueueNext ==
    \/ \E p \in {"B", "C"} : PeerSend(p, "A")
    \/ QueueStep

SpecQueue == QueueInit /\ [][QueueNext]_vars

\* A keeps running: while one of its goroutines can take a step, one does
\* (the dispatch loop is slow, not stopped); the peers owe nothing
QueueFairness == WF_vars(QueueStep)

SpecQueueFair == SpecQueue /\ QueueFairness

\* the messages of connection l still in the channel of l's node, in order
queued(l) == SelectSeq(rpcch[l[1]], LAMBDA rpc : rpc.From = l[2])

\* the channel holds no more than its capacity, and what it holds of a
\* connection are the messages decoded on it and not yet delivered, each
\* once, in the order of their decoding; a message not in the channel and
\* not delivered is the one its read loop is blocked on sending
QueueSafe ==
    /\ Len(rpcch["A"]) <= rpcchCap
    /\ \A l \in {<<"A", "B">>, <<"A", "C">>} :
          LET q == queued(l)
          IN  /\ \A i \in 1..Len(q) : q[i].seq = rl[l].delivered + i
              /\ rl[l].decoded =
                    rl[l].delivered + Len(q) + (IF rl[l].pc = "send" THEN 1 ELSE 0)

\* every message decoded so far has been delivered
AllDelivered ==
    \A l \in {<<"A", "B">>, <<"A", "C">>} : rl[l].delivered = rl[l].decoded

\* C6: with more control messages sent than the channel's capacity of 1024
\* and a slow dispatch loop, the channel never holds more than 1024, a read
\* loop with a message to enqueue waits while it is full, and every message
\* decoded is delivered to the dispatch loop, once and in the order of its
\* decoding on its connection.
C6_NoDrop == []QueueSafe /\ []<>AllDelivered

\* the channel is full and a read loop is blocked with a decoded message
C6_Witness ==
    /\ Len(rpcch["A"]) = rpcchCap
    /\ \E p \in {"B", "C"} : rl[<<"A", p>>].pc = "send"

(***************************************************************************)
(* A Store on a node that is serving a GetFile at the same time.  Store    *)
(* runs in the caller's goroutine, handleMessageGetFile in the dispatch    *)
(* loop's; both write to the peer's connection and nothing orders them.    *)
(***************************************************************************)
\* the replica: B's blob <<65>> as B's copyEncrypt has written it
replicaOfB == copyEncryptAll(EncKey("B"), [i \in 1..BlockSize |-> 7], <<65>>).out

\* A and B are connected.  A holds a replica of a blob of B's (B stored it
\* earlier); A's caller is about to store.
MixInit ==
    /\ disk = [n \in Nodes |->
                  IF n = "A"
                  THEN Write(EmptyFS, ID("B"), hashKey("picture_0.png"), replicaOfB)
                  ELSE EmptyFS]
    /\ last = NoCall
    /\ cr = [phase |-> "off"]
    /\ peers = [n \in Nodes |-> CASE n = "A" -> {"B"} [] n = "B" -> {"A"} [] OTHER -> {}]
    /\ wire = [l \in {<<"A", "B">>, <<"B", "A">>} |-> <<>>]
    /\ rl = [l \in {<<"A", "B">>, <<"B", "A">>} |-> IdleReadLoop]
    /\ wg = [l \in {<<"A", "B">>, <<"B", "A">>} |-> 0]
    /\ rpcch = [n \in Nodes |-> <<>>]
    /\ loop = [n \in Nodes |-> IdleLoop]
    /\ op = [n \in Nodes |-> IdleOp]
    /\ node = [n \in Nodes |-> StartedNode(IF n = "A" THEN 1 ELSE Len(Script) + 1)]

\* The goroutines of A that write to the connection from A to B: A's caller
\* in Store, and A's dispatch loop in handleMessageGetFile, fed by A's read
\* loop with the GetFile messages that B's program sends for that blob.
MixNext ==
    \/ PeerSend("B", "A")
    \/ ReadLoopPeek("A", "B")
    \/ ReadLoopPayload("A", "B")
    \/ ReadLoopSend("A", "B")
    \/ LoopRecv("A")
    \/ LoopGetTag("A")
    \/ LoopGetSize("A")
    \/ LoopGetCopy("A")
    \/ \E key \in NetKeys, data \in NetPayloads : StoreCall("A", key, data)
    \/ BroadcastTag("A")
    \/ BroadcastMsg("A")
    \/ StoreFanOut("A")
    \/ StoreMultiWrite("A")

SpecMix == MixInit /\ [][MixNext]_vars

\* the bytes of a StoreFile frame: the tag and the encoded message
frameLen == 1 + Len(GobEncode(MessageStoreFile("idA", hashKey("picture_0.png"), 0)))

\* the Store in progress on n has sent p its StoreFile message and has not
\* yet sent p the last byte of the stream
InStoreSpan(n, p) ==
    /\ op[n].call = "Store" /\ op[n].pc # "idle"
    /\ p \in DOMAIN op[n].out
    /\ Len(op[n].out[p]) >= frameLen
    /\ Len(op[n].out[p]) < frameLen + 1 + announcedSize(Len(op[n].buf))

\* C11: on each connection the stream bytes follow the announcing control
\* message at once: from the StoreFile message of a Store to the last byte
\* of its stream, every byte written to that connection is written by the
\* Store (no control frame and no byte of another stream comes between).
C11_StreamFollows ==
    [][\A n \in Active : \A p \in peers[n] :
          (InStoreSpan(n, p) /\ Len(wire'[<<n, p>>]) > Len(wire[<<n, p>>]))
          => op'[n].out # op[n].out]_vars

(***************************************************************************)
(* TCPTransport.handleConn before the read loop: the handshake and the     *)
(* OnPeer callback, for the connection of node n with p.                   *)
(***************************************************************************)
\* where handleConn goes after HandshakeFunc: on an error it returns (the
\* deferred function closes the connection), otherwise on to OnPeer
afterHandshake_Ignore(err) == "onpeer"
afterHandshake(err) == IF err THEN "exit" ELSE "onpeer"

\* t.HandshakeFunc(peer): the function is the transport's option, it may
\* return an error or nil
ConnHandshake(n, p) ==
    /\ Alive(n)
    /\ rl[<<n, p>>].pc = "handshake"
    /\ \E err \in BOOLEAN :
          rl' = [rl EXCEPT ![<<n, p>>].pc = afterHandshake(err),
                           ![<<n, p>>].conn = IF afterHandshake(err) = "exit" THEN "closed" ELSE @,
                           ![<<n, p>>].setup = IF err THEN "handshake failed" ELSE @]
    /\ UNCHANGED <<disk, last, cr, peers, wire, wg, rpcch, loop, op, node>>

\* t.OnPeer(peer) with a callback that returns an error: handleConn returns
\* and the deferred function closes the connection
ConnOnPeerFail(n, p) ==
    /\ Alive(n)
    /\ rl[<<n, p>>].pc = "onpeer"
    /\ rl' = [rl EXCEPT ![<<n, p>>].pc = "exit", ![<<n, p>>].conn = "closed",
                         ![<<n, p>>].setup = "onpeer failed"]
    /\ UNCHANGED <<disk, last, cr, peers, wire, wg, rpcch, loop, op, node>>

\* FileServer.OnPeer: s.peerLock.Lock()
ConnOnPeerLock(n, p) ==
    /\ Alive(n)
    /\ rl[<<n, p>>].pc = "onpeer"
    /\ node[n].lock = ""
    /\ node' = [node EXCEPT ![n].lock = p]
    /\ rl' = [rl EXCEPT ![<<n, p>>].pc = "onpeer_write"]
    /\ UNCHANGED <<disk, last, cr, peers, wire, wg, rpcch, loop, op>>

\* a caller of n is inside a range over s.peers: broadcast's loop, or the
\* loop of Get over the peers that reply
MapReadInProgress(n) ==
    op[n].pc \in {"bc_tag", "bc_msg", "get_size", "get_open", "get_iv", "get_copy", "get_close"}

\* what a range in progress over the map may go on to visit once the entry
\* of p is written under it: the write and the iteration are unordered, the
\* new entry may be visited or not
racedOrders(order, p) == {order, Append(order, p)}

\* FileServer.OnPeer: s.peers[p.RemoteAddr().String()] = p
registered_Skip(ps, p) == ps
registered(ps, p) == ps \cup {p}

\* FileServer.OnPeer: s.peers[addr] = p, the deferred Unlock, return nil;
\* handleConn enters the read loop.  The ranges over the map take no lock:
\* with one in progress the write is a data race, which the runtime may
\* detect (fatal error, the process ends) or not.
ConnOnPeerWrite(n, p) ==
    /\ Alive(n)
    /\ rl[<<n, p>>].pc = "onpeer_write"
    /\ peers' = [peers EXCEPT ![n] = registered(@, p)]
    /\ rl' = [rl EXCEPT ![<<n, p>>].pc = "peek", ![<<n, p>>].setup = "done"]
    /\ IF MapReadInProgress(n)
       THEN \/ /\ node' = [node EXCEPT ![n].lock = "", ![n].crashed = TRUE]
               /\ UNCHANGED op
            \/ /\ node' = [node EXCEPT ![n].lock = ""]
               /\ \E order \in racedOrders(op[n].order, p) :
                     op' = [op EXCEPT ![n].order = order]
       ELSE /\ node' = [node EXCEPT ![n].lock = ""]
            /\ UNCHANGED op
    /\ UNCHANGED <<disk, last, cr, wire, wg, rpcch, loop>>

\* A is connected to B; the connection of C has just been accepted by A and
\* its handleConn is at the handshake (C's end is through with its own).
\* A's caller is about to store.
JoinInit ==
    /\ disk = [n \in Nodes |-> EmptyFS]
    /\ last = NoCall
    /\ cr = [phase |-> "off"]
    /\ peers = [n \in Nodes |-> IF n = "A" THEN {"B"} ELSE {"A"}]
    /\ wire = [l \in {<<"A", "B">>, <<"B", "A">>, <<"A", "C">>, <<"C", "A">>} |-> <<>>]
    /\ rl = [l \in {<<"A", "B">>, <<"B", "A">>, <<"A", "C">>, <<"C", "A">>} |->
                IF l = <<"A", "C">>
                THEN [IdleReadLoop EXCEPT !.pc = "handshake", !.setup = "pending"]
                ELSE IdleReadLoop]
    /\ wg = [l \in {<<"A", "B">>, <<"B", "A">>, <<"A", "C">>, <<"C", "A">>} |-> 0]
    /\ rpcch = [n \in Nodes |-> <<>>]
    /\ loop = [n \in Nodes |-> IdleLoop]
    /\ op = [n \in Nodes |-> IdleOp]
    /\ node = [n \in Nodes |-> StartedNode(IF n = "A" THEN 1 ELSE Len(Script) + 1)]

\* the goroutine of A for C's connection, C's program sending on its own,
\* A's dispatch loop, and A's caller in Store
JoinNext ==
    \/ ConnHandshake("A", "C")
    \/ ConnOnPeerFail("A", "C")
    \/ ConnOnPeerLock("A", "C")
    \/ ConnOnPeerWrite("A", "C")
    \/ PeerSend("C", "A")
    \/ ReadLoopPeek("A", "C")
    \/ ReadLoopPayload("A", "C")
    \/ ReadLoopSend("A", "C")
    \/ LoopRecv("A")
    \/ \E key \in NetKeys, data \in NetPayloads : StoreCall("A", key, data)
    \/ BroadcastTag("A")
    \/ BroadcastMsg("A")
    \/ StoreFanOut("A")
    \/ StoreMultiWrite("A")

SpecJoin == JoinInit /\ [][JoinNext]_vars

\* C12: every read and write of the peer map is made holding the peer
\* mutex, so that no read is concurrent with a write of OnPeer: while the
\* mutex is held for OnPeer's write, no range over the map is in progress.
C12_PeerMapLocked ==
    \A n \in Active : node[n].lock # "" => ~MapReadInProgress(n)

\* the bytes p has sent n on its own and n has not read
unreadOf(n, p) == Len(wire[<<p, n>>]) = node[p].frames * frameLen

\* no RPC of the connection of n with p has been decoded, is in the channel
\* or has been delivered
noRPCOf(n, p) ==
    /\ rl[<<n, p>>].decoded = 0 /\ rl[<<n, p>>].delivered = 0
    /\ rl[<<n, p>>].payload = <<>>
    /\ \A i \in 1..Len(rpcch[n]) : rpcch[n][i].From # p

\* C15: a connection whose handshake has failed is closed, OnPeer is not
\* invoked for it (the peer is not in the map, the mutex is not taken for
\* it) and it never enters the read loop; a connection whose OnPeer has
\* failed is closed, no byte of it is decoded and no RPC of it is enqueued.
C15_SetupFailure ==
    \A l \in Conns :
        rl[l].setup \in {"handshake failed", "onpeer failed"} =>
            /\ rl[l].pc = "exit" /\ rl[l].conn = "closed"
            /\ l[2] \notin peers[l[1]]
            /\ node[l[1]].lock # l[2]
            /\ unreadOf(l[1], l[2])
            /\ noRPCOf(l[1], l[2])

\* the handshake of a connection has failed with bytes of the peer waiting
\* on it
C15_Witness ==
    /\ rl[<<"A", "C">>].setup = "handshake failed"
    /\ wire[<<"C", "A">>] # <<>>

(***************************************************************************)
(* A peer that goes away.                                                  *)
(***************************************************************************)
\* the process of p ends (it exits or is killed): it takes no further step
\* and its ends of its connections are closed
PeerExit(p) ==
    /\ Alive(p)
    /\ node' = [node EXCEPT ![p].crashed = TRUE]
    /\ rl' = [l \in DOMAIN rl |-> IF l[1] = p THEN [rl[l] EXCEPT !.conn = "closed"] ELSE rl[l]]
    /\ UNCHANGED <<disk, last, cr, peers, wire, wg, rpcch, loop, op>>

\* bytes that are no gob encoding of a Message
junkFrame == <<0, 0, 0>>

\* the program of a remote peer p sends node n a frame whose payload is not
\* an encoded Message
PeerSendJunk(p, n) ==
    /\ Alive(p)
    /\ n \in peers[p]
    /\ connUp(p, n)
    /\ framesSent < MaxFrames
    /\ node' = [node EXCEPT ![p].frames = @ + 1]
    /\ wire' = connWrite(connWrite(wire, p, n, <<IncomingMessage>>), p, n, junkFrame)
    /\ UNCHANGED <<disk, last, cr, peers, rl, wg, rpcch, loop, op>>

\* A and B connected; B's caller may call Get, and B may go away at any time
EofInit ==
    NetInit({<<"A", "B">>, <<"B", "A">>, <<"A", "C">>, <<"C", "A">>}, {"B"})

\* B's caller up to the end of broadcast, B's exit, and at A the read loop
\* of B's connection and the dispatch loop
EofNext ==
    \/ \E key \in NetKeys : GetCall("B", key)
    \/ BroadcastTag("B")
    \/ BroadcastMsg("B")
    \/ PeerSendJunk("B", "A")
    \/ PeerExit("B")
    \/ ReadLoopPeek("A", "B")
    \/ ReadLoopPayload("A", "B")
    \/ ReadLoopPeekError("A", "B")
    \/ ReadLoopPayloadError("A", "B")
    \/ ReadLoopSend("A", "B")
    \/ LoopRecv("A")

SpecEof == EofInit /\ [][EofNext]_vars

\* C13: once a read on a peer connection has failed (the remote peer's
\* close included), the connection's read loop has ended, the connection
\* is closed, and no further RPC of that connection is put on the inbound
\* channel.
C13_ReadFailure ==
    [][\A l \in Conns :
          rl'[l].failed =>
              /\ rl'[l].pc = "exit"
              /\ rl'[l].conn = "closed"
              /\ rl[l].failed => Len(queued(l)') <= Len(queued(l))]_vars

\* C14: after a peer's read loop has ended on an error or a close, the peer
\* is no longer in the peer map.
C14_PeerRemoved ==
    \A l \in Conns :
        (rl[l].pc = "exit" /\ rl[l].failed) => l[2] \notin peers[l[1]]

\* the dispatch loop of n takes an RPC in this step, and its payload cannot
\* be decoded as a Message
TakesUndecodable(n) ==
    /\ rpcch[n] # <<>>
    /\ rpcch'[n] = Tail(rpcch[n])
    /\ GobDecode(Head(rpcch[n]).Payload).type = "nil"

\* C17: the dispatch loop skips an RPC whose payload cannot be decoded as a
\* StoreFile or GetFile message: no blob is written, no byte is sent,
\* CloseStream is not called, and the loop is back at its select for the
\* next RPC.
C17_SkipUndecodable ==
    [][\A n \in Active :
          TakesUndecodable(n) =>
              /\ disk' = disk
              /\ wire' = wire
              /\ wg' = wg
              /\ \A l \in Conns : rl'[l].closed = rl[l].closed
              /\ ~node'[n].crashed
              /\ loop'[n].pc = "recv"]_vars

\* the dispatch loop has skipped an undecodable RPC and the next RPC, a
\* GetFile message, is waiting in the channel
C17_Witness ==
    /\ loop["A"].skipped /\ loop["A"].pc = "recv"
    /\ rpcch["A"] # <<>>
    /\ GobDecode(Head(rpcch["A"]).Payload).type = "GetFile"

(***************************************************************************)
(* Store on a node whose peers go away.                                    *)
(***************************************************************************)
\* A is connected to B and to C, A's caller is about to store
FailInit == NetInit({<<"A", "B">>, <<"B", "A">>, <<"A", "C">>, <<"C", "A">>}, {"A"})

\* A's caller in Store; B and C may go away at any time
FailNext ==
    \/ \E p \in {"B", "C"} : PeerExit(p)
    \/ \E key \in NetKeys, data \in NetPayloads : StoreCall("A", key, data)
    \/ BroadcastTag("A")
    \/ BroadcastMsg("A")
    \/ StoreFanOut("A")
    \/ StoreMultiWrite("A")

SpecFail == FailInit /\ [][FailNext]_vars

\* C16: once a send of a Store to one of the peers has failed (the tag
\* byte, the message, the Stream tag or encrypted bytes), the Store sends
\* nothing further to any peer and returns an error, and the local blob is
\* still there when it has returned.
C16_StoreFailFast ==
    [][\A n \in Active :
          (op[n].call = "Store" /\ op[n].fail) =>
              /\ op'[n].out = op[n].out
              /\ op'[n].pc = "idle" =>
                    /\ op'[n].res.err
                    /\ Has(disk'[n], ID(n), op'[n].res.key)]_vars

(***************************************************************************)
(* FileServer.Stop, the end of the dispatch loop and of the accept loop.   *)
(***************************************************************************)
\* Stop: close(s.quitch)
Stop(n) ==
    /\ Alive(n)
    /\ ~node[n].quit
    /\ node' = [node EXCEPT ![n].quit = TRUE]
    /\ UNCHANGED <<disk, last, cr, peers, wire, rl, wg, rpcch, loop, op>>

\* FileServer.loop: 'case <-s.quitch' is ready once quitch is closed, and
\* it is a case of the select the loop is at between two RPCs
selectQuit_AnyTime(lp, quit) == quit
selectQuit(lp, quit) == lp.pc = "recv" /\ quit

\* FileServer.loop: the select takes the case of quitch, the loop returns
\* and its deferred function closes the transport, that is the listener.
\* The loop is at its select only between two RPCs: a handler that has not
\* returned keeps it away from quitch.  Start, which called loop, returns
\* nil.
LoopQuit(n) ==
    /\ Alive(n)
    /\ selectQuit(loop[n], node[n].quit)
    /\ loop' = [loop EXCEPT ![n].pc = "exited"]
    /\ node' = [node EXCEPT ![n].listener = "closed"]
    /\ op' = [op EXCEPT ![n] = IF op[n].pc = "start_loop"
                               THEN Returned(op[n], Result("Start", "", FALSE, <<>>, 0))
                               ELSE @]
    /\ UNCHANGED <<disk, last, cr, peers, wire, rl, wg, rpcch>>

\* startAcceptLoop: Accept returns net.ErrClosed once the listener is
\* closed, and the loop returns
AcceptExit(n) ==
    /\ Alive(n)
    /\ node[n].accept = "running"
    /\ node[n].listener = "closed"
    /\ node' = [node EXCEPT ![n].accept = "exited"]
    /\ UNCHANGED <<disk, last, cr, peers, wire, rl, wg, rpcch, loop, op>>

\* A and B connected and started, B's caller about to store
StopInit == NetInit({<<"A", "B">>, <<"B", "A">>}, {"B"})

\* the goroutines of A: the read loop of B's connection, the dispatch loop
\* with handleMessageStoreFile, the accept loop
StopReadLoop ==
    \/ ReadLoopPeek("A", "B")
    \/ ReadLoopPayload("A", "B")
    \/ ReadLoopSend("A", "B")
    \/ ReadLoopAdd("A", "B")
    \/ ReadLoopWait("A", "B")

StopDispatch ==
    \/ LoopRecv("A")
    \/ LoopStoreCopy("A")
    \/ LoopStoreClose("A")
    \/ LoopQuit("A")

StopStep == StopReadLoop \/ StopDispatch \/ AcceptExit("A")

\* with them B's caller in Store, and A's caller, who may call Stop
StopNext ==
    \/ StopStep
    \/ Stop("A")
    \/ \E key \in NetKeys, data \in NetPayloads : StoreCall("B", key, data)
    \/ BroadcastTag("B")
    \/ BroadcastMsg("B")
    \/ StoreFanOut("B")
    \/ StoreMultiWrite("B")

\* A keeps running: each of its goroutines, while it can take a step, takes
\* one.  Nothing is assumed of B, which is another machine: it may be slow
\* or silent.
StopFairness ==
    /\ WF_vars(StopReadLoop)
    /\ WF_vars(StopDispatch)
    /\ WF_vars(AcceptExit("A"))

SpecStop == StopInit /\ [][StopNext]_vars /\ StopFairness

\* the dispatch loop of n has returned, the listener is closed and the
\* accept loop has returned
ShutDown(n) ==
    /\ loop[n].pc = "exited"
    /\ node[n].listener = "closed"
    /\ node[n].accept = "exited"

\* C18: once Stop has been called on a started node, the dispatch loop
\* eventually exits and closes the transport's listener, and the accept
\* loop then exits; before Stop is called the dispatch loop never exits,
\* whatever messages come in.
C18_StopShutsDown ==
    /\ [](loop["A"].pc = "exited" => node["A"].quit)
    /\ [](node["A"].accept = "exited" => node["A"].listener = "closed")
    /\ (node["A"].quit ~> ShutDown("A"))

(***************************************************************************)
(* FileServer.Start: ListenAndAccept, bootstrapNetwork, loop.              *)
(***************************************************************************)
\* TCPTransportOpts.ListenAddr of the three servers of the demo
ListenAddr(n) == CASE n = "A" -> ":3000" [] n = "B" -> ":7000" [] n = "C" -> ":5000"

\* TCPTransport.Addr
Addr(n) == ListenAddr(n)

\* FileServerOpts.BootstrapNodes: the third server dials the other two
BootstrapNodes(n) == IF n = "C" THEN {"A", "B"} ELSE {}

\* a node as NewFileServer and NewTCPTransport leave it: no listener, no
\* accept loop, no dispatch loop
NewNode ==
    [StartedNode(Len(Script) + 1) EXCEPT !.listener = "none", !.accept = "none",
                                        !.bind = "none"]

\* where Start goes after ListenAndAccept: it returns the error, or goes on
\* to bootstrapNetwork
afterListen_GoOn(err) == "start_bootstrap"
afterListen(err) == IF err THEN "idle" ELSE "start_bootstrap"

\* the caller calls Start
StartCall(n) ==
    /\ Alive(n)
    /\ op[n].pc = "idle" /\ op[n].res.op = "none"
    /\ node[n].bind = "none"
    /\ op' = [op EXCEPT ![n] = [IdleOp EXCEPT !.pc = "start_listen", !.call = "Start"]]
    /\ UNCHANGED <<disk, last, cr, peers, wire, rl, wg, rpcch, loop, node>>

\* Start: s.Transport.ListenAndAccept().  net.Listen binds the address or
\* returns an error (the address is in use); bound, the accept loop is
\* started in a goroutine of its own and ListenAndAccept returns nil.
StartListen(n) ==
    /\ Alive(n)
    /\ op[n].pc = "start_listen"
    /\ \E err \in BOOLEAN :
          /\ node' = [node EXCEPT ![n].bind = IF err THEN "failed" ELSE "ok",
                                  ![n].listener = IF err THEN @ ELSE "open",
                                  ![n].accept = IF err THEN @ ELSE "running"]
          /\ op' = [op EXCEPT ![n] =
                      IF afterListen(err) = "idle"
                      THEN Returned(op[n], Result("Start", "", TRUE, <<>>, 0))
                      ELSE [op[n] EXCEPT !.pc = afterListen(err)]]
    /\ UNCHANGED <<disk, last, cr, peers, wire, rl, wg, rpcch, loop>>

\* Start: bootstrapNetwork starts one goroutine per address, each to Dial;
\* Start then enters the dispatch loop
StartBootstrap(n) ==
    /\ Alive(n)
    /\ op[n].pc = "start_bootstrap"
    /\ node' = [node EXCEPT ![n].dials = BootstrapNodes(n)]
    /\ op' = [op EXCEPT ![n].pc = "start_loop"]
    /\ loop' = [loop EXCEPT ![n].pc = "recv"]
    /\ UNCHANGED <<disk, last, cr, peers, wire, rl, wg, rpcch>>

\* a connection end at the start of handleConn
NewConn == [IdleReadLoop EXCEPT !.pc = "handshake", !.setup = "pending"]

\* bootstrapNetwork's goroutine for address a: Transport.Dial.  net.Dial
\* succeeds when a is listening and its accept loop takes the connection
\* (both ends start handleConn), and may fail (the error is logged).
Dial(n, a) ==
    /\ Alive(n)
    /\ a \in node[n].dials
    /\ node' = [node EXCEPT ![n].dials = @ \ {a}]
    /\ \/ /\ node[a].listener = "open" /\ node[a].accept = "running"
          /\ rl' = [rl EXCEPT ![<<n, a>>] = NewConn, ![<<a, n>>] = NewConn]
       \/ UNCHANGED rl
    /\ UNCHANGED <<disk, last, cr, peers, wire, wg, rpcch, loop, op>>

\* the connections there may be, an end each
AllLinks == {l \in Nodes \X Nodes : l[1] # l[2]}

\* three servers constructed and not started, no connection yet
StartInit ==
    /\ disk = [n \in Nodes |-> EmptyFS]
    /\ last = NoCall
    /\ cr = [phase |-> "off"]
    /\ peers = [n \in Nodes |-> {}]
    /\ wire = [l \in AllLinks |-> <<>>]
    /\ rl = [l \in AllLinks |->
                [IdleReadLoop EXCEPT !.pc = "none", !.setup = "none"]]
    /\ wg = [l \in AllLinks |-> 0]
    /\ rpcch = [n \in Nodes |-> <<>>]
    /\ loop = [n \in Nodes |-> [IdleLoop EXCEPT !.pc = "off"]]
    /\ op = [n \in Nodes |-> IdleOp]
    /\ node = [n \in Nodes |-> NewNode]

StartNext ==
    \E n \in Nodes :
       \/ StartCall(n)
       \/ StartListen(n)
       \/ StartBootstrap(n)
       \/ Stop(n)
       \/ LoopQuit(n)
       \/ AcceptExit(n)
       \/ \E a \in Nodes \ {n} :
             \/ Dial(n, a)
             \/ ConnHandshake(n, a)
             \/ ConnOnPeerFail(n, a)
             \/ ConnOnPeerLock(n, a)
             \/ ConnOnPeerWrite(n, a)

SpecStart == StartInit /\ [][StartNext]_vars

\* no goroutine of n has dialed, and n has no connection
NothingDialed(n) ==
    /\ node[n].dials = {}
    /\ \A l \in Conns : l[1] = n => rl[l].pc = "none"

\* C19: ListenAndAccept on an address that can be bound returns no error
\* without waiting for a connection (the accept loop runs on its own) and
\* Addr() is the configured address; when the address cannot be bound it
\* returns the error and starts no accept loop, and Start returns that
\* error without dialing a bootstrap node and without running the dispatch
\* loop.
C19_ListenAndStart ==
    \A n \in Active :
        /\ Addr(n) = ListenAddr(n)
        /\ node[n].bind = "ok" =>
              /\ node[n].accept # "none" /\ node[n].listener # "none"
              /\ op[n].pc \in {"start_bootstrap", "start_loop", "idle"}
              /\ op[n].pc = "idle" =>
                    op[n].res.op = "Start" /\ ~op[n].res.err /\ loop[n].pc = "exited"
        /\ node[n].bind = "failed" =>
              /\ node[n].accept = "none" /\ node[n].listener = "none"
              /\ op[n].pc = "idle" /\ op[n].res.op = "Start" /\ op[n].res.err
              /\ NothingDialed(n)
              /\ loop[n].pc = "off"

\* the address of C could not be bound and Start has returned on C, while
\* A has bound its address and ListenAndAccept has returned on A with no
\* connection made yet
C19_Witness ==
    /\ node["C"].bind = "failed" /\ op["C"].res.err
    /\ node["A"].bind = "ok" /\ op["A"].pc = "start_bootstrap"
    /\ \A l \in Conns : rl[l].pc = "none"

(***************************************************************************)
(* DefaultDecoder.Decode on its own, over a reader that holds `src` and    *)
(* then returns io.EOF.                                                    *)
(***************************************************************************)
\* the tag byte read makes the unit a stream
isStream_Never(tag) == FALSE
isStream(tag) == tag = IncomingStream

\* Decode(r, &rpc) with rpc the zero RPC; a Read of r returns at most
\* `chunk` bytes.  `used` is the number of bytes taken from r.
\*  - the read of the tag fails (nothing left): nil, the RPC as it was;
\*  - the tag is IncomingStream: Stream is set, nothing more is read;
\*  - otherwise one Read into a buffer of 1028 bytes: its error, or the
\*    bytes it returned as the payload.
Decode(src, chunk) ==
    IF src = <<>>
    THEN [err |-> FALSE, Stream |-> FALSE, Payload |-> <<>>, used |-> 0]
    ELSE IF isStream(src[1])
    THEN [err |-> FALSE, Stream |-> TRUE, Payload |-> <<>>, used |-> 1]
    ELSE IF Len(src) = 1
    THEN [err |-> TRUE, Stream |-> FALSE, Payload |-> <<>>, used |-> 1]
    ELSE LET n == Min(chunk, Min(maxFrame, Len(src) - 1))
         IN  [err |-> FALSE, Stream |-> FALSE, Payload |-> SubSeq(src, 2, 1 + n),
              used |-> 1 + n]

\* the bytes a reader may hold: tags and a letter
DecodeBytes == {IncomingMessage, IncomingStream, 65}

\* a message frame longer than the decoder's buffer
longSource == [i \in 1..(maxFrame + 2) |-> IF i = 1 THEN IncomingMessage ELSE 65]

DecodeSources == SeqsUpTo(DecodeBytes, MaxLen + 1) \cup {longSource}

\* the most a Read of the reader returns at a time
ReadChunks == {1, 2, maxFrame, maxFrame + 1}

DecodeInit ==
    /\ disk = [r \in {defaultRootFolderName} |-> EmptyFS]
    /\ last = NoCall
    /\ \E src \in DecodeSources, chunk \in ReadChunks :
          cr = [phase |-> "reader", src |-> src, chunk |-> chunk,
                rpc |-> Decode(<<>>, chunk)]
    /\ NetOff

DecodeCall ==
    /\ cr.phase = "reader"
    /\ cr' = [cr EXCEPT !.phase = "decoded", !.rpc = Decode(cr.src, cr.chunk)]
    /\ UNCHANGED <<disk, last, netVars>>

SpecDecode == DecodeInit /\ [][DecodeCall]_vars

\* C20: Decode takes exactly one leading tag byte; when it is 0x2 it sets
\* Stream and takes no further byte; otherwise Stream stays false and the
\* payload is the bytes that one read of at most 1028 bytes returned, the
\* bytes that follow the tag.
C20_Decode ==
    (cr.phase = "decoded" /\ cr.src # <<>>) =>
        IF cr.src[1] = IncomingStream
        THEN cr.rpc.Stream /\ cr.rpc.used = 1 /\ cr.rpc.Payload = <<>> /\ ~cr.rpc.err
        ELSE /\ ~cr.rpc.Stream
             /\ cr.rpc.used = 1 + Len(cr.rpc.Payload)
             /\ Len(cr.rpc.Payload) <= maxFrame
             /\ cr.rpc.Payload = Take(Drop(cr.src, 1), Len(cr.rpc.Payload))
             /\ ~cr.rpc.err => /\ cr.rpc.Payload # <<>>
                               /\ Len(cr.rpc.Payload) = Min(cr.chunk, Min(maxFrame, Len(cr.src) - 1))

\* a frame longer than the buffer has been decoded: the payload is the
\* 1028 bytes after the tag
C20_Witness ==
    /\ cr.phase = "decoded" /\ cr.src = longSource
    /\ ~cr.rpc.Stream /\ Len(cr.rpc.Payload) = maxFrame

(***************************************************************************)
(* A control frame longer than the decoder's buffer.  B is a remote peer   *)
(* of A that sends one frame and may exit; A runs the read loop of B's     *)
(* connection and its dispatch loop.                                       *)
(***************************************************************************)
\* what follows the first 1028 bytes of the serialized message: a letter,
\* a Stream tag, or bytes that look like a frame of their own
Overhangs == {<<65>>, <<IncomingStream, 65>>, <<IncomingMessage, 65, 65>>}

\* the serialized messages longer than the cap: a GetFile message or bytes
\* gob cannot decode, filled up to 1028 bytes, then the overhang
bigMessages ==
    {head \o [i \in 1..(maxFrame - Len(head)) |-> 0] \o tail :
        head \in {getFrame("B"), junkFrame}, tail \in Overhangs}

\* peer.Send([]byte{IncomingMessage}); peer.Send(buf.Bytes()) by the remote
\* peer p with a message longer than the cap
PeerSendBig(p, n) ==
    /\ Alive(p)
    /\ n \in peers[p]
    /\ connUp(p, n)
    /\ framesSent < MaxFrames
    /\ node' = [node EXCEPT ![p].frames = @ + 1]
    /\ \E big \in bigMessages :
          wire' = connWrite(connWrite(wire, p, n, <<IncomingMessage>>), p, n, big)
    /\ UNCHANGED <<disk, last, cr, peers, rl, wg, rpcch, loop, op>>

BigInit == NetInit({<<"A", "B">>, <<"B", "A">>, <<"A", "C">>, <<"C", "A">>}, {})

BigNext ==
    \/ PeerSendBig("B", "A")
    \/ PeerExit("B")
    \/ ReadLoopPeek("A", "B")
    \/ ReadLoopPayload("A", "B")
    \/ ReadLoopPeekError("A", "B")
    \/ ReadLoopPayloadError("A", "B")
    \/ ReadLoopSend("A", "B")
    \/ ReadLoopAdd("A", "B")
    \/ LoopRecv("A")

SpecBig == BigInit /\ [][BigNext]_vars

\* C21: the payload the read loop takes off a connection is the first
\* bytes the connection holds after the tag, 1028 at most, and every RPC
\* handed to the dispatch loop carries at most 1028 bytes; the bytes beyond
\* stay on the connection, and the following Decode takes the first of
\* them as the tag byte of a new frame (a stream when it is 0x2, a message
\* otherwise).
C21_Truncated ==
    [][\A l \in Conns :
          LET unread == wire[<<l[2], l[1]>>]
          IN  /\ (rl[l].pc = "payload" /\ rl'[l].pc = "send") =>
                    /\ Len(rl'[l].payload) <= maxFrame
                    /\ rl'[l].payload = Take(unread, Len(rl'[l].payload))
                    /\ wire'[<<l[2], l[1]>>] = Drop(unread, Len(rl'[l].payload))
              /\ (rl[l].pc = "peek" /\ rl'[l].pc \in {"payload", "add"}) =>
                    /\ wire'[<<l[2], l[1]>>] = Tail(unread)
                    /\ rl'[l].pc = "add" <=> Head(unread) = IncomingStream
              /\ \A i \in 1..Len(rpcch'[l[1]]) :
                    Len(rpcch'[l[1]][i].Payload) <= maxFrame]_vars

\* the dispatch loop has taken the 1028 bytes of a longer message, and the
\* read loop has taken the byte after them for a Stream tag
C21_Witness ==
    /\ node["B"].frames = 1
    /\ rl[<<"A", "B">>].delivered = 1
    /\ rl[<<"A", "B">>].pc = "wait"
    /\ wire[<<"B", "A">>] = <<65>>

(***************************************************************************)
(* copyDecrypt on its own, over a source that may end before the prefix    *)
(* is complete: the first bytes of an encrypted payload, read through a    *)
(* reader that may return fewer bytes than asked at every read.            *)
(***************************************************************************)
\* the sources: an encrypted payload cut after k bytes
truncatedSources(key, iv, plain) ==
    LET whole == copyEncryptAll(key, iv, plain).out
    IN  {Take(whole, k) : k \in {0, 1, BlockSize - 1, BlockSize, Len(whole)}}

PrefixInit ==
    /\ disk = [r \in {defaultRootFolderName} |-> EmptyFS]
    /\ last = NoCall
    /\ \E key \in EncKeys, iv \in IVs, plain \in Payloads :
          \E src \in truncatedSources(key, iv, plain) :
             cr = [phase |-> "enc_done", key |-> key, plain |-> plain, src |-> <<>>,
                   stream |-> NewCTR(key, iv), dst |-> src, nw |-> 0,
                   out |-> <<>>, dnw |-> 0]
    /\ NetOff

PrefixNext ==
    \/ copyDecryptBegin
    \/ copyDecryptStream

SpecPrefix == PrefixInit /\ [][PrefixNext]_vars

\* the number of bytes the read of the prefix took from the source: what
\* has left the source and was not written to the destination
prefixRead == Len(cr.dst) - Len(cr.src) - Len(cr.out)

\* C22: once copyDecrypt has read the prefix, fewer than 16 bytes supplied
\* for it (the source ended, or the read returned fewer) means that
\* copyDecrypt has failed and has written nothing to the destination.
C22_ShortPrefix ==
    (cr.phase \in {"dec", "dec_done", "dec_err"} /\ prefixRead < BlockSize) =>
        cr.phase = "dec_err" /\ cr.out = <<>>

(***************************************************************************)
(* Store.Has and the outcomes of os.Stat.  A Store made by NewStore        *)
(* without a transform uses DefaultPathTransformFunc, under which the      *)
(* path of one key can run through the file of another; the permissions    *)
(* of a directory are set from outside the program.  A key is written as   *)
(* the sequence of its "/"-separated parts.                                *)
(***************************************************************************)
DefaultKeys == {<<"a">>, <<"a", "a">>, <<"b">>}

\* DefaultPathTransformFunc: PathName and Filename are both the key
DefaultPathTransformFunc(key) == [PathName |-> key, Filename |-> key]

\* "%s/%s/%s" of root, id and PathName, and of root, id and FullPath
pathNameWithRoot(id, key) == <<id>> \o DefaultPathTransformFunc(key).PathName
defaultFullPathWithRoot(id, key) ==
    <<id>> \o DefaultPathTransformFunc(key).PathName \o DefaultPathTransformFunc(key).Filename

\* a directory exists where a file lies below it
isDir(fs, place) == \E q \in DOMAIN fs : Under(q, place) /\ q # place

\* the directories on the way to a place
parentsOf(place) == {Take(place, k) : k \in 1..(Len(place) - 1)}

\* os.Stat(place): nil or the error of the first step of the walk that
\* fails; `denied` are the directories without search permission
osStat(fs, denied, place) ==
    IF \E d \in parentsOf(place) : d \in denied THEN "EACCES"
    ELSE IF \E d \in parentsOf(place) : d \in DOMAIN fs THEN "ENOTDIR"
    ELSE IF place \in DOMAIN fs \/ isDir(fs, place) THEN "nil"
    ELSE "ENOENT"

\* errors.Is(err, os.ErrNotExist): of the errors of a stat, ENOENT only
errorsIsErrNotExist(err) == err = "ENOENT"

\* Store.Has under the default transform
HasDefault(fs, denied, id, key) ==
    ~errorsIsErrNotExist(osStat(fs, denied, defaultFullPathWithRoot(id, key)))

\* os.MkdirAll(dir): nil, or the error of the first step that fails
osMkdirAll(fs, denied, dir) ==
    IF \E d \in parentsOf(dir) : d \in denied THEN "EACCES"
    ELSE IF \E d \in parentsOf(dir) \cup {dir} : d \in DOMAIN fs THEN "ENOTDIR"
    ELSE "nil"

\* os.Create(place) once the directories are there
osCreate(fs, denied, place) ==
    IF \E d \in parentsOf(place) : d \in denied THEN "EACCES"
    ELSE IF isDir(fs, place) THEN "EISDIR"
    ELSE "nil"

\* Store.Write under the default transform with the whole of data read
WriteDefault(fs, denied, id, key, data) ==
    LET place == defaultFullPathWithRoot(id, key)
        made  == osMkdirAll(fs, denied, pathNameWithRoot(id, key))
        err   == IF made # "nil" THEN made ELSE osCreate(fs, denied, place)
    IN  [err |-> err,
         fs  |-> IF err # "nil" THEN fs
                 ELSE [p \in DOMAIN fs \cup {place} |-> IF p = place THEN data ELSE fs[p]]]

StatInit ==
    /\ disk = [r \in {defaultRootFolderName} |-> EmptyFS]
    /\ last = NoCall
    /\ cr = [phase |-> "stat", denied |-> {}]
    /\ NetOff

StatWrite(id, key, data) ==
    /\ LET r == WriteDefault(fsStore, cr.denied, id, key, data)
       IN  /\ disk' = [disk EXCEPT ![defaultRootFolderName] = r.fs]
           /\ last' = [op |-> "Write", id |-> id, key |-> key, stat |-> r.err, res |-> FALSE]
    /\ UNCHANGED <<cr, netVars>>

\* the owner of the root takes the search permission of a node's directory
\* away, or gives it back (chmod, outside the program)
StatChmod(id) ==
    /\ isDir(fsStore, <<id>>)
    /\ cr' = [cr EXCEPT !.denied = IF <<id>> \in @ THEN @ \ {<<id>>} ELSE @ \cup {<<id>>}]
    /\ UNCHANGED <<disk, last, netVars>>

\* Store.Has(id, key); the stat's outcome is kept next to the result
StatHas(id, key) ==
    /\ last' = [op |-> "Has", id |-> id, key |-> key,
                stat |-> osStat(fsStore, cr.denied, defaultFullPathWithRoot(id, key)),
                res |-> HasDefault(fsStore, cr.denied, id, key)]
    /\ UNCHANGED <<disk, cr, netVars>>

StatNext ==
    \/ \E key \in DefaultKeys, data \in StorePayloads : StatWrite("idA", key, data)
    \/ StatChmod("idA")
    \/ \E id \in NodeIDs, key \in DefaultKeys : StatHas(id, key)

SpecStat == StatInit /\ [][StatNext]_vars

\* C23: Has returns true exactly when the stat of the blob's path
\* succeeds, and false on every failure of the stat.
C23_HasFalseOnStatFailure ==
    last.op = "Has" => (last.res <=> last.stat = "nil")

(***************************************************************************)
(* C24: Delete(n, k) removes every blob of node n whose path has the       *)
(* first directory segment of k's path (the keys of the same bucket become *)
(* absent) and leaves every blob of node n in another bucket as it was.    *)
(***************************************************************************)
sameBucket(k1, k2) ==
    FirstPathName(CASPathTransformFunc(k1)) = FirstPathName(CASPathTransformFunc(k2))

C24_DeleteTakesBucket ==
    [][IsDeleteStep =>
         \A k \in UserKeys :
            IF sameBucket(k, last'.key)
            THEN ~Has(fsStore', last'.id, k)
            ELSE /\ Has(fsStore', last'.id, k) = Has(fsStore, last'.id, k)
                 /\ Read(fsStore', last'.id, k) = Read(fsStore, last'.id, k)]_vars

\* a Delete has removed the key's blob and the blob of a sibling key, and a
\* blob of the node in another bucket is still there
C24_Witness ==
    /\ last.op = "Delete"
    /\ last.before >= 0
    /\ Cardinality(last.gone) = 2
    /\ \E k \in UserKeys : ~sameBucket(k, last.key) /\ Has(fsStore, last.id, k)

(***************************************************************************)
(* C25: on a shared root, a Write, WriteDecrypt or Delete scoped to one    *)
(* node ID changes neither Has nor Read of any key under another node ID.  *)
(***************************************************************************)
IsScopedStep == last'.op \in {"Write", "WriteDecrypt", "Delete"}

C25_NodeIsolation ==
    [][IsScopedStep =>
         \A n2 \in NodeIDs \ {last'.id} : \A k \in UserKeys :
            /\ Has(fsStore', n2, k) = Has(fsStore, n2, k)
            /\ Read(fsStore', n2, k) = Read(fsStore, n2, k)]_vars

\* one node's blob of a key has been deleted while another node holds a
\* blob of the same key
C25_Witness ==
    /\ last.op = "Delete"
    /\ last.before >= 0
    /\ \E n2 \in NodeIDs \ {last.id} :
          Has(fsStore, n2, last.key) /\ Read(fsStore, n2, last.key).size > 0

(***************************************************************************)
(* C26: the place of a blob is the node's directory, then the 40 hex       *)
(* characters of the key's digest in 8 segments of 5 characters, in order, *)
(* then a file named by the whole digest; a key written again lands in     *)
(* the place it had (the transform gives the same PathKey every time).     *)
(***************************************************************************)
RECURSIVE Flatten(_)
Flatten(segs) == IF segs = <<>> THEN <<>> ELSE Head(segs) \o Flatten(Tail(segs))

IsWriteStep == last'.op \in {"Write", "WriteDecrypt"}

C26_CASPath ==
    [][IsWriteStep =>
         \E p \in DOMAIN fsStore' :
            /\ DOMAIN fsStore' = DOMAIN fsStore \cup {p}
            /\ last'.before >= 0 => p \in DOMAIN fsStore
            /\ Len(p) = 10 /\ p[1] = last'.id
            /\ \A i \in 2..9 : Len(p[i]) = 5
            /\ Flatten(SubSeq(p, 2, 9)) = sha1Hex(last'.key)
            /\ p[10] = sha1Hex(last'.key) /\ Len(p[10]) = 40
            /\ fsStore'[p] = last'.data]_vars

\* a key has been written a second time and the store holds one blob
C26_Witness ==
    /\ last.op = "Write"
    /\ last.before >= 0
    /\ Cardinality(DOMAIN fsStore) = 1
    /\ \A p \in DOMAIN fsStore : Len(p) = 10 /\ p[10] = sha1Hex(last.key)

C28_PerPeerBackpressure ==
    \A l \in {<<"A", "B">>, <<"A", "C">>} :
       (rl[l].pc = "send" /\ queued(l) = <<>>) => ENABLED ReadLoopSend(l[1], l[2])

(***************************************************************************)
(* The accept loop when Accept fails.  A is started and listening, C is    *)
(* about to dial A; Accept on A may return an error other than ErrClosed   *)
(* (no file descriptor left, a connection aborted before it was taken).    *)
(***************************************************************************)
\* failed accepts per node
MaxAcceptErrors == 1

\* startAcceptLoop: Accept returns (nil, err) with err other than
\* net.ErrClosed; the error is printed and handleConn is started on the nil
\* connection all the same
AcceptError(n) ==
    /\ Alive(n)
    /\ node[n].accept = "running" /\ node[n].listener = "open"
    /\ node[n].accepterr < MaxAcceptErrors
    /\ node' = [node EXCEPT ![n].accepterr = @ + 1, ![n].nilconn = @ + 1]
    /\ UNCHANGED <<disk, last, cr, peers, wire, rl, wg, rpcch, loop, op>>

\* handleConn(nil, false): NewTCPPeer wraps the nil connection.  When the
\* handshake returns an error the deferred conn.Close() is called on the
\* nil interface; when it returns nil, OnPeer takes the lock and calls
\* p.RemoteAddr() on the nil connection.  Both are nil dereferences in a
\* goroutine that recovers nothing: the process ends, and with it the
\* listener and every connection.
HandleNilConn(n) ==
    /\ Alive(n)
    /\ node[n].nilconn > 0
    /\ \E err \in BOOLEAN : ~err => node[n].lock = ""
    /\ node' = [node EXCEPT ![n].nilconn = @ - 1, ![n].crashed = TRUE,
                            ![n].listener = "closed", ![n].accept = "exited"]
    /\ rl' = [l \in DOMAIN rl |-> IF l[1] = n THEN [rl[l] EXCEPT !.conn = "closed"] ELSE rl[l]]
    /\ UNCHANGED <<disk, last, cr, peers, wire, wg, rpcch, loop, op>>

AcceptInit ==
    /\ disk = [n \in Nodes |-> EmptyFS]
    /\ last = NoCall
    /\ cr = [phase |-> "off"]
    /\ peers = [n \in Nodes |-> {}]
    /\ wire = [l \in AllLinks |-> <<>>]
    /\ rl = [l \in AllLinks |-> [IdleReadLoop EXCEPT !.pc = "none", !.setup = "none"]]
    /\ wg = [l \in AllLinks |-> 0]
    /\ rpcch = [n \in Nodes |-> <<>>]
    /\ loop = [n \in Nodes |-> IdleLoop]
    /\ op = [n \in Nodes |-> [IdleOp EXCEPT !.pc = "start_loop", !.call = "Start"]]
    /\ node = [n \in Nodes |->
                 [StartedNode(Len(Script) + 1) EXCEPT !.dials = IF n = "A" THEN {} ELSE {"A"}]]

AcceptNext ==
    \/ AcceptError("A")
    \/ HandleNilConn("A")
    \/ Stop("A")
    \/ LoopQuit("A")
    \/ AcceptExit("A")
    \/ \E p \in {"B", "C"} :
          \/ Dial(p, "A")
          \/ ConnHandshake("A", p)
          \/ ConnOnPeerFail("A", p)
          \/ ConnOnPeerLock("A", p)
          \/ ConnOnPeerWrite("A", p)

SpecAccept == AcceptInit /\ [][AcceptNext]_vars

\* C29: once an accept has failed with an error other than "listener
\* closed", no connection handler runs for it, the process goes on, and
\* the accept loop keeps running for as long as the listener is open.
C29_AcceptErrorNotFatal ==
    \A n \in Active :
       node[n].accepterr > 0 =>
          /\ node[n].nilconn = 0
          /\ ~node[n].crashed
          /\ node[n].listener = "open" => node[n].accept = "running"

(***************************************************************************)
(* C30: when copyDecrypt of an encrypted payload returns without error,    *)
(* the count it returns is the length of the payload plus 16, and the      *)
(* bytes written to the destination are as many as the payload has.        *)
(***************************************************************************)
C30_DecryptCount ==
    cr.phase = "dec_done" =>
        /\ cr.dnw = Len(cr.plain) + 16
        /\ Len(cr.out) = Len(cr.plain)

(***************************************************************************)
(* What the StoreFile handler writes.                                      *)
(***************************************************************************)
\* the replica of A's blob at node n
replicaAt(n) == Read(disk[n], ID("A"), hashKey("picture_0.png"))

\* the bytes of the stream A's Store sent to p: what followed the tag
streamSent(p) ==
    Drop(op["A"].out[p], Len(storeHead("A", op["A"].res.key, op["A"].res.data)))

\* A's Store has returned and B's handler is through with the stream
StoreHandled ==
    /\ op["A"].res.op = "Store" /\ ~op["A"].res.err
    /\ "B" \in DOMAIN op["A"].out
    /\ loop["B"].pc = "recv" /\ rpcch["B"] = <<>> /\ wire[<<"A", "B">>] = <<>>
    /\ rl[<<"B", "A">>].closed = 1
    /\ replicaAt("B").size = Len(op["A"].res.data) + 16

\* C31 as stated: the handler hands the stream to WriteDecrypt, so the
\* replica on the peer's disk is the decryption of the bytes of the stream.
C31_AsStated ==
    StoreHandled =>
        replicaAt("B").data = copyDecryptAll(EncKey("B"), streamSent("B")).out

\* C31 amended: the handler hands the stream to the store's Write; every
\* byte it takes off the connection goes to the peer's disk as it came,
\* at the offset it has in the stream, still encrypted.
C31_StoredAsReceived ==
    [][\A n \in Active :
          (loop[n].pc = "store_copy" /\ loop'[n] # loop[n]) =>
             LET k   == loop'[n].off - loop[n].off
                 got == Take(wire[<<loop[n].from, n>>], k)
             IN  /\ k > 0
                 /\ wire'[<<loop[n].from, n>>] = Drop(wire[<<loop[n].from, n>>], k)
                 /\ Has(disk[n], loop[n].id, loop[n].key) =>
                       SubSeq(Read(disk'[n], loop[n].id, loop[n].key).data,
                              loop[n].off + 1, loop[n].off + k) = got]_vars

\* the handler of B has written a whole stream of A: the replica is the
\* prefix and the ciphertext as A sent them
C31_Witness ==
    /\ StoreHandled
    /\ op["A"].res.data # <<>>
    /\ replicaAt("B").data = streamSent("B")

(***************************************************************************)
(* What leaves the node in a Store.                                        *)
(***************************************************************************)
\* s is the beginning of t
IsPrefix(s, t) == Len(s) <= Len(t) /\ s = Take(t, Len(s))

\* the key and the payload of the Store that n is in or has returned from
storeKey(n) == IF op[n].call = "Store" THEN op[n].key ELSE op[n].res.key
storeData(n) == IF op[n].call = "Store" THEN op[n].buf ELSE op[n].res.data

PeerAsk(p, n, id) ==
    /\ Alive(p)
    /\ n \in peers[p]
    /\ connUp(p, n)
    /\ framesSent < MaxFrames
    /\ node' = [node EXCEPT ![p].frames = @ + 1]
    /\ wire' = connWrite(connWrite(wire, p, n, <<IncomingMessage>>), p, n,
                         GobEncode(MessageGetFile(id, hashKey("picture_0.png"))))
    /\ UNCHANGED <<disk, last, cr, peers, rl, wg, rpcch, loop, op>>

ServeInit ==
    /\ disk = [n \in Nodes |->
                  IF n = "A"
                  THEN Write(Write(EmptyFS, ID("B"), hashKey("picture_0.png"), replicaOfB),
                             ID("A"), "picture_0.png", <<65>>)
                  ELSE EmptyFS]
    /\ last = NoCall
    /\ cr = [phase |-> "off"]
    /\ peers = [n \in Nodes |-> IF n = "A" THEN {"B", "C"} ELSE {"A"}]
    /\ wire = [l \in {<<"A", "B">>, <<"B", "A">>, <<"A", "C">>, <<"C", "A">>} |-> <<>>]
    /\ rl = [l \in {<<"A", "B">>, <<"B", "A">>, <<"A", "C">>, <<"C", "A">>} |-> IdleReadLoop]
    /\ wg = [l \in {<<"A", "B">>, <<"B", "A">>, <<"A", "C">>, <<"C", "A">>} |-> 0]
    /\ rpcch = [n \in Nodes |-> <<>>]
    /\ loop = [n \in Nodes |-> IdleLoop]
    /\ op = [n \in Nodes |-> IdleOp]
    /\ node = [n \in Nodes |-> StartedNode(IF n = "A" THEN 1 ELSE Len(Script) + 1)]

ServeNext ==
    \/ \E p \in {"B", "C"} :
          \/ \E id \in {ID(q) : q \in Nodes} : PeerAsk(p, "A", id)
          \/ ReadLoopPeek("A", p)
          \/ ReadLoopPayload("A", p)
          \/ ReadLoopSend("A", p)
    \/ LoopRecv("A")
    \/ LoopGetTag("A")
    \/ LoopGetSize("A")
    \/ LoopGetCopy("A")
    \/ \E key \in NetKeys, data \in NetPayloads : StoreCall("A", key, data)
    \/ BroadcastTag("A")
    \/ BroadcastMsg("A")
    \/ StoreFanOut("A")
    \/ StoreMultiWrite("A")

SpecServe == ServeInit /\ [][ServeNext]_vars

\* what this step adds to the connection from n to p, when it adds to
\* that connection alone
sentInStep(n, p) == Drop(wire'[<<n, p>>], Len(wire[<<n, p>>]))
OnlySentTo(n, p) ==
    /\ IsPrefix(wire[<<n, p>>], wire'[<<n, p>>])
    /\ \A l \in Conns : l # <<n, p>> => wire'[l] = wire[l]

\* the dispatch loop of n takes a GetFile message in this step
TakesGetFile(n) ==
    /\ loop[n].pc = "recv" /\ rpcch[n] # <<>> /\ rpcch'[n] = Tail(rpcch[n])
    /\ GobDecode(Head(rpcch[n]).Payload).type = "GetFile"

\* C33: the handler replies exactly when the store holds a blob under the
\* ID the message carries and the digest it asks for.  The reply goes to
\* the peer the message came from and is the Stream tag, eight bytes that
\* read as the blob's size, and the blob's bytes as stored; on a miss the
\* handler returns and nothing is sent.  Blobs under other IDs, the node's
\* own among them, play no part.
C33_ServeExactly ==
    [][\A n \in Active :
          /\ TakesGetFile(n) =>
                LET rpc == Head(rpcch[n])
                    msg == GobDecode(rpc.Payload)
                IN  /\ wire' = wire
                    /\ IF fullPathWithRoot(msg.ID, msg.Key) \in DOMAIN disk[n]
                       THEN /\ loop'[n].pc = "get_tag" /\ loop'[n].from = rpc.From
                            /\ loop'[n].data = disk[n][fullPathWithRoot(msg.ID, msg.Key)]
                       ELSE loop'[n].pc = "recv"
          /\ (loop[n].pc = "get_tag" /\ loop'[n] # loop[n]) =>
                /\ OnlySentTo(n, loop[n].from)
                /\ sentInStep(n, loop[n].from) = <<IncomingStream>>
                /\ loop'[n].pc = "get_size"
          /\ (loop[n].pc = "get_size" /\ loop'[n] # loop[n]) =>
                /\ OnlySentTo(n, loop[n].from)
                /\ Len(sentInStep(n, loop[n].from)) = 8
                /\ FromLittleEndian64(sentInStep(n, loop[n].from)) = Len(loop[n].data)
                /\ loop'[n].pc = "get_copy"
          /\ (loop[n].pc = "get_copy" /\ loop'[n] # loop[n]) =>
                /\ OnlySentTo(n, loop[n].from)
                /\ sentInStep(n, loop[n].from) = loop[n].data
                /\ loop'[n].pc = "recv"]_vars

\* B has been sent the whole reply for its replica, which ends what A has
\* written to B, while C's request for the same digest under C's own ID
\* could not have been served and A's own blob is in the store
C33_Witness ==
    /\ rl[<<"A", "B">>].delivered = 1
    /\ loop["A"].pc = "recv"
    /\ Len(wire[<<"A", "B">>]) >= 9 + Len(replicaOfB)
    /\ Drop(wire[<<"A", "B">>], Len(wire[<<"A", "B">>]) - Len(replicaOfB)) = replicaOfB
    /\ ~Has(disk["A"], ID("C"), hashKey("picture_0.png"))
    /\ Has(disk["A"], ID("A"), "picture_0.png")

(***************************************************************************)
(* C34: CloseStream is called on a peer only after the read loop of its    *)
(* connection has raised the gate: the counter of the WaitGroup never      *)
(* goes below zero, so no node panics on wg.Done().                        *)
(***************************************************************************)
C34_GateRaisedFirst ==
    /\ \A l \in Conns : wg[l] >= 0
    /\ \A n \in Active : ~node[n].crashed

(***************************************************************************)
(* Two readers of one connection.                                          *)
(***************************************************************************)
\* the control messages A's caller broadcasts in the course of its script
framesOfA ==
    {GobEncode(MessageStoreFile(ID("A"), hashKey("picture_0.png"), Len(d) + 16)) :
        d \in Payloads}
        \cup {GobEncode(MessageGetFile(ID("A"), hashKey("picture_0.png")))}

\* C35: the read loop takes the Stream tag and the stream consumer takes
\* the announced bytes that follow it, whatever the interleaving: the blob
\* B's StoreFile handler has written is the stream A's Store sent after the
\* tag, and every RPC B's read loop has queued is a control message of A.
C35_ReadersKeepApart ==
    /\ (/\ op["A"].res.op = "Store" /\ ~op["A"].res.err
        /\ "B" \in DOMAIN op["A"].out
        /\ rl[<<"B", "A">>].closed >= 1)
           => replicaAt("B").data = streamSent("B")
    /\ \A i \in 1..Len(rpcch["B"]) : rpcch["B"][i].Payload \in framesOfA

(***************************************************************************)
(* The StoreFile handler when the local write fails.  A and B connected,   *)
(* A's caller running the script; a write to B's disk may fail (no space   *)
(* left, an I/O error).                                                    *)
(***************************************************************************)
\* handleMessageStoreFile after store.Write has returned an error: 'return
\* err', the dispatch loop logs it and is back at its select
afterWriteError_Close(lp) == [lp EXCEPT !.pc = "store_close"]
afterWriteError(lp) == IdleLoop

\* handleMessageStoreFile: a read of io.Copy has returned k bytes of the
\* peer and the Write of them to the file fails; store.Write returns the
\* error and the handler returns it. `werr` is history: the peers whose
\* StoreFile handler has failed.
LoopStoreFail(n) ==
    /\ Alive(n)
    /\ loop[n].pc = "store_copy"
    /\ LET from == loop[n].from
       IN  /\ \E k \in connRead(Min(loop[n].left, copyBufSize), Len(wire[<<from, n>>])) :
                 wire' = [wire EXCEPT ![<<from, n>>] = Drop(@, k)]
           /\ node' = [node EXCEPT ![n].werr = @ \cup {from}]
    /\ loop' = [loop EXCEPT ![n] = afterWriteError(@)]
    /\ UNCHANGED <<disk, last, cr, peers, rl, wg, rpcch, op>>

WriteFailNext ==
    \/ Next
    \/ LoopStoreFail("B")

SpecWriteFail == Init /\ [][WriteFailNext]_vars

\* the handler of n for a stream of p fails in this step
HandlerFails(n, p) == p \notin node[n].werr /\ p \in node'[n].werr

StallInit == NetInit({<<"A", "B">>, <<"B", "A">>, <<"A", "C">>, <<"C", "A">>}, {"B"})

StallNext ==
    \/ \E key \in NetKeys, data \in NetPayloads : StoreCall("B", key, data)
    \/ BroadcastTag("B")
    \/ BroadcastMsg("B")
    \/ StoreFanOut("B")
    \/ StoreMultiWrite("B")
    \/ PeerSend("C", "A")
    \/ \E p \in {"B", "C"} :
          \/ ReadLoopPeek("A", p)
          \/ ReadLoopPayload("A", p)
          \/ ReadLoopSend("A", p)
          \/ ReadLoopAdd("A", p)
          \/ ReadLoopWait("A", p)
    \/ LoopRecv("A")
    \/ LoopStoreCopy("A")
    \/ LoopStoreClose("A")
    \/ Stop("A")
    \/ LoopQuit("A")
    \/ AcceptExit("A")

SpecStall == StallInit /\ [][StallNext]_vars

\* the StoreFile handler of n is in io.Copy with bytes of the announced
\* stream still to come and nothing to read on the sender's connection
HandlerWaits(n) ==
    /\ loop[n].pc = "store_copy"
    /\ loop[n].left > 0
    /\ wire[<<loop[n].from, n>>] = <<>>

\* C37: while the StoreFile handler waits for announced bytes that do not
\* come, the dispatch loop does nothing else: it takes no RPC off the
\* channel, whichever peer it is from, does not return on Stop and does not
\* close the listener; only bytes on the stalled connection move it.
C37_HeadOfLine ==
    [][HandlerWaits("A") =>
          /\ IsPrefix(rpcch["A"], rpcch'["A"])
          /\ disk' = disk
          /\ \A l \in Conns : rl'[l].delivered = rl[l].delivered
          /\ loop'["A"] = loop["A"]
          /\ node'["A"].listener = node["A"].listener
          /\ node'["A"].accept = node["A"].accept]_vars

\* A's handler waits for B's stream, a message of C is in the channel and
\* Stop has been called: the loop has not returned, the listener is open
C37_Witness ==
    /\ HandlerWaits("A")
    /\ loop["A"].from = "B"
    /\ \E i \in 1..Len(rpcch["A"]) :
          rpcch["A"][i].From = "C" /\ rpcch["A"][i].Payload = getFrame("C")
    /\ node["A"].quit
    /\ node["A"].listener = "open" /\ node["A"].accept = "running"

(***************************************************************************)
(* Frames on a byte stream.                                                *)
(***************************************************************************)
\* C38: every control message A broadcasts reaches B's dispatch loop as one
\* RPC whose payload is that message's bytes, however the bytes arrive: what
\* B's read loop has decoded as a payload, and is about to queue or has
\* queued, is one whole message of A with nothing after it.
C38_FramesKept ==
    /\ rl[<<"B", "A">>].pc = "send" => rl[<<"B", "A">>].payload \in framesOfA
    /\ \A i \in 1..Len(rpcch["B"]) :
          rpcch["B"][i].From = "A" => rpcch["B"][i].Payload \in framesOfA

(***************************************************************************)
(* What the read loops put on the channel.  A is connected to B; the       *)
(* connection of C has just been accepted by A and its handleConn is at    *)
(* the handshake, while C, through with its own setup, stores and sends    *)
(* control messages at once.                                               *)
(***************************************************************************)
RegInit ==
    /\ disk = [n \in Nodes |-> EmptyFS]
    /\ last = NoCall
    /\ cr = [phase |-> "off"]
    /\ peers = [n \in Nodes |-> IF n = "A" THEN {"B"} ELSE {"A"}]
    /\ wire = [l \in {<<"A", "B">>, <<"B", "A">>, <<"A", "C">>, <<"C", "A">>} |-> <<>>]
    /\ rl = [l \in {<<"A", "B">>, <<"B", "A">>, <<"A", "C">>, <<"C", "A">>} |->
                IF l = <<"A", "C">>
                THEN [IdleReadLoop EXCEPT !.pc = "handshake", !.setup = "pending"]
                ELSE IdleReadLoop]
    /\ wg = [l \in {<<"A", "B">>, <<"B", "A">>, <<"A", "C">>, <<"C", "A">>} |-> 0]
    /\ rpcch = [n \in Nodes |-> <<>>]
    /\ loop = [n \in Nodes |-> IdleLoop]
    /\ op = [n \in Nodes |-> IdleOp]
    /\ node = [n \in Nodes |-> StartedNode(IF n = "C" THEN 1 ELSE Len(Script) + 1)]

RegNext ==
    \/ ConnHandshake("A", "C")
    \/ ConnOnPeerFail("A", "C")
    \/ ConnOnPeerLock("A", "C")
    \/ ConnOnPeerWrite("A", "C")
    \/ PeerSend("C", "A")
    \/ \E key \in NetKeys, data \in NetPayloads : StoreCall("C", key, data)
    \/ BroadcastTag("C")
    \/ BroadcastMsg("C")
    \/ StoreFanOut("C")
    \/ StoreMultiWrite("C")
    \/ ReadLoopPeek("A", "C")
    \/ ReadLoopPayload("A", "C")
    \/ ReadLoopSend("A", "C")
    \/ ReadLoopAdd("A", "C")
    \/ ReadLoopWait("A", "C")
    \/ LoopRecv("A")
    \/ LoopStoreCopy("A")
    \/ LoopStoreClose("A")

SpecReg == RegInit /\ [][RegNext]_vars

\* handleConn of the connection l is in its read loop
InReadLoop(l) == rl[l].pc \in {"peek", "payload", "send", "add", "wait"}

\* an RPC is sent on the channel of n in this step
Enqueues(n) == Len(rpcch'[n]) > Len(rpcch[n])

\* the dispatch loop of n takes a StoreFile or a GetFile message in this step
TakesMessage(n) ==
    /\ rpcch[n] # <<>> /\ rpcch'[n] = Tail(rpcch[n])
    /\ GobDecode(Head(rpcch[n]).Payload).type \in {"StoreFile", "GetFile"}

\* C39: a connection is in the read loop only once OnPeer has put its peer
\* in the map; an RPC is sent on the channel only by a read loop that has
\* decoded a payload (never from stream mode: a Stream tag sends nothing),
\* with the address of its connection as From, so every RPC in the channel
\* is from a peer of the map and the handler's lookup of the sender finds
\* it.
C39_QueuedFromPeers ==
    /\ [](\A l \in Conns : InReadLoop(l) => l[2] \in peers[l[1]])
    /\ [](\A n \in Active : \A i \in 1..Len(rpcch[n]) : rpcch[n][i].From \in peers[n])
    /\ [][\A n \in Active :
             /\ Enqueues(n) =>
                   \E p \in peers[n] :
                      /\ rl[<<n, p>>].pc = "send" /\ rl'[<<n, p>>].pc = "peek"
                      /\ rpcch'[n] = Append(rpcch[n],
                                            RPC(p, rl[<<n, p>>].payload, rl[<<n, p>>].decoded))
             /\ (\E p \in peers[n] : InStreamMode(<<n, p>>)' /\ ~InStreamMode(<<n, p>>))
                   => rpcch'[n] = rpcch[n]
             /\ TakesMessage(n) =>
                   /\ Head(rpcch[n]).From \in peers[n]
                   /\ loop'[n].from = Head(rpcch[n]).From \/ loop'[n].pc = "recv"]_vars

\* C has been registered after it began to send: a message of C is in A's
\* channel and A's read loop for C waits at the gate of C's stream
C39_Witness ==
    /\ "C" \in peers["A"]
    /\ \E i \in 1..Len(rpcch["A"]) : rpcch["A"][i].From = "C"
    /\ node["C"].frames > 0
    /\ InStreamMode(<<"A", "C">>)

(***************************************************************************)
(* Get on a key the node does not hold.  A's caller calls Get; A is        *)
(* connected to any of B and C, and any of those holds the replica of A's  *)
(* blob <<65>> (A stored it earlier and deleted its own copy).  The peers  *)
(* send nothing of their own.                                              *)
(***************************************************************************)
FetchInit ==
    \E P \in SUBSET {"B", "C"} : \E H \in SUBSET P :
       LET links == {l \in {<<"A", "B">>, <<"B", "A">>, <<"A", "C">>, <<"C", "A">>} :
                        l[1] \in P \/ l[2] \in P}
       IN  /\ disk = [n \in Nodes |->
                        IF n \in H
                        THEN Write(EmptyFS, ID("A"), hashKey("picture_0.png"),
                                   copyEncryptAll(EncKey("A"), [i \in 1..BlockSize |-> 7],
                                                  <<65>>).out)
                        ELSE EmptyFS]
           /\ last = NoCall
           /\ cr = [phase |-> "off"]
           /\ peers = [n \in Nodes |-> {p \in Nodes : <<n, p>> \in links}]
           /\ wire = [l \in links |-> <<>>]
           /\ rl = [l \in links |-> IdleReadLoop]
           /\ wg = [l \in links |-> 0]
           /\ rpcch = [n \in Nodes |-> <<>>]
           /\ loop = [n \in Nodes |-> IdleLoop]
           /\ op = [n \in Nodes |-> IdleOp]
           /\ node = [n \in Nodes |-> StartedNode(IF n = "A" THEN Len(Script) ELSE Len(Script) + 1)]

FetchNext ==
    \/ \E key \in NetKeys : GetCall("A", key)
    \/ BroadcastTag("A")
    \/ BroadcastMsg("A")
    \/ GetFanIn("A")
    \/ GetReadSize("A")
    \/ GetOpen("A")
    \/ GetReadIV("A")
    \/ GetCopy("A")
    \/ GetClose("A")
    \/ GetReturn("A")
    \/ LoopRecv("A")
    \/ \E p \in {"B", "C"} :
          \/ ReadLoopPeek(p, "A")
          \/ ReadLoopPayload(p, "A")
          \/ ReadLoopSend(p, "A")
          \/ LoopRecv(p)
          \/ LoopGetTag(p)
          \/ LoopGetSize(p)
          \/ LoopGetCopy(p)
          \/ ReadLoopPeek("A", p)
          \/ ReadLoopPayload("A", p)
          \/ ReadLoopSend("A", p)
          \/ ReadLoopAdd("A", p)
          \/ ReadLoopWait("A", p)

SpecFetch == FetchInit /\ [][FetchNext]_vars

\* p holds a replica of A's blob: its GetFile handler replies with a stream
Replies(p) == Has(disk[p], ID("A"), hashKey("picture_0.png"))

\* the peer the range of A's Get is at
getPeer == op["A"].order[op["A"].i]

\* C40: Get on a key missing locally returns only when every peer of the
\* map has replied with a stream.  With no peer it returns the error of the
\* final Read (the blob is not there) and has sent nothing.  At a peer that
\* does not hold the key it stays at the read of the size prefix, with
\* nothing to read on that connection, and does not return, whatever the
\* peers before it in the range have supplied.
C40_GetNeedsEveryPeer ==
    /\ (op["A"].res.op = "Get" \/ op["A"].pc = "get_ret") =>
          \A p \in peers["A"] : Replies(p)
    /\ (op["A"].res.op = "Get" /\ peers["A"] = {}) =>
          /\ op["A"].res.err
          /\ ~Has(disk["A"], ID("A"), "picture_0.png")
          /\ op["A"].out = <<>>
    /\ op["A"].pc \in {"get_open", "get_iv", "get_copy", "get_close"} => Replies(getPeer)
    /\ (op["A"].pc = "get_size" /\ ~Replies(getPeer)) =>
          /\ op["A"].acc = <<>>
          /\ wire[<<getPeer, "A">>] = <<>>

\* C has supplied the file, which is on A's disk decrypted, and Get is at
\* the size prefix of B, which does not hold the key and sends nothing
C40_Witness ==
    /\ op["A"].pc = "get_size" /\ op["A"].order = <<"C", "B">> /\ op["A"].i = 2
    /\ Replies("C") /\ ~Replies("B")
    /\ Read(disk["A"], ID("A"), "picture_0.png").data = <<65>>
    /\ loop["B"].pc = "recv" /\ rpcch["B"] = <<>> /\ wire[<<"A", "B">>] = <<>>
    /\ rl[<<"B", "A">>].delivered > 0

====
